---- MODULE Spec2Model ----
(***************************************************************************)
(* Model of the ARK index builder: file discovery, change analysis,        *)
(* symbol-id generation, ledger construction, the temp-file + rename       *)
(* writer and the configuration-change test, over a small live filesystem. *)
(***************************************************************************)
EXTENDS Integers, Sequences, FiniteSets, TLC

\* ------------------------------------------------------------------ bounds
MaxEdits == 1
MaxBuilds == 2
MaxFaults == 1

\* ------------------------------------------------------- model universe
Paths == {"a.ts", "b.ts"}
WalkOrder == <<"a.ts", "b.ts">>
Contents == 1..3
Throw == "throw"
NoHash == "nohash"

\* Byte size of each content; contents 1 and 2 have the same size.
SizeOf(c) == IF c = 3 THEN 1500 ELSE 100

\* What the TS baseline extractor returns for each content: one symbol
\* per matching line, so line numbers are distinct.
extractSymbolsBaseline(c) ==
  CASE c = 1 -> << [name |-> "f", line |-> 1] >>
    [] c = 2 -> << [name |-> "f", line |-> 1], [name |-> "f", line |-> 5] >>
    [] OTHER -> << [name |-> "g", line |-> 2] >>

\* Adapters are external objects: "A", "C" and "D" are available, "B" is
\* not; the extractSymbols of "C" throws.
AdapterNames == {"A", "B", "C", "D"}
isAvailable(a) == a \in {"A", "C", "D"}
adapterThrows(a) == a = "C"

\* What an adapter returns for each content: "A" nothing for content 2,
\* "D" one symbol for every content.
adapterExtractSymbols(a, c) ==
  CASE a = "D" -> << [name |-> "d", line |-> 1] >>
    [] a = "A" /\ c = 1 -> << [name |-> "f", line |-> 1], [name |-> "f", line |-> 5],
                              [name |-> "f", line |-> 5] >>
    [] a = "A" /\ c = 3 -> << [name |-> "h", line |-> 3] >>
    [] OTHER -> << >>

\* ------------------------------------------------------- build options
DefaultOpts ==
  [force |-> FALSE, includeGlobs |-> << "**/*" >>, excludeGlobs |-> << >>,
   maxFileKb |-> 1, maxFiles |-> 2, respectGitignore |-> TRUE,
   adapters |-> << >>]

OptionChoices ==
  { DefaultOpts,
    [DefaultOpts EXCEPT !.adapters = << "A" >>],
    [DefaultOpts EXCEPT !.adapters = << "B" >>],
    [DefaultOpts EXCEPT !.maxFileKb = 2],
    [DefaultOpts EXCEPT !.maxFiles = 1],
    [DefaultOpts EXCEPT !.force = TRUE] }

\* ------------------------------------------------------------- helpers
Range(s) == { s[i] : i \in 1..Len(s) }

RECURSIVE SelectPaths(_, _)
SelectPaths(order, S) ==
  IF order = << >> THEN << >>
  ELSE IF Head(order) \in S THEN << Head(order) >> \o SelectPaths(Tail(order), S)
  ELSE SelectPaths(Tail(order), S)

\* ------------------------------------------------------------ artifacts
\* A writer that publishes the completion marker first.
WriteOrderMetaFirst ==
  << "meta.json", "file_hashes.json", "symbols.jsonl", "repo_map.json",
     "test_map.json" >>

WriteOrder ==
  << "file_hashes.json", "symbols.jsonl", "repo_map.json", "test_map.json",
     "meta.json" >>
Artifacts == Range(WriteOrder)

\* `call` is one direct call of an exported function: its name, its
\* argument and, once it has returned, its result.
\* `procs` holds the writers of two buildIndex runs that overlap on one
\* index directory: the file each is at, its step and how it returned.
VARIABLES fs, edits, lastEdit, pub, tmp, pc, wpos, wphase, builds, faults,
          run, result, pubAtStart, prevRun, call, procs

builderVars == << fs, edits, lastEdit, pub, tmp, pc, wpos, wphase, builds,
                  faults, run, result, pubAtStart, prevRun, procs >>

vars == << fs, edits, lastEdit, pub, tmp, pc, wpos, wphase, builds, faults,
           run, result, pubAtStart, prevRun, call, procs >>

\* ----------------------------------------------------------- filesystem
\* stat succeeds on an existing file even when it cannot be read.
CanStat(f, p) == f[p].present
CanRead(f, p) == f[p].present /\ f[p].readable

\* sha256 of the file content; throws when the file cannot be read.
computeFileHash(f, p) ==
  IF CanRead(f, p) THEN "sha256:" \o ToString(f[p].content) ELSE Throw

\* A quick check that compares the size only.
quickChangeCheckSizeOnly(f, p, previousMtime, previousSize) ==
  IF ~CanStat(f, p) THEN "error"
  ELSE IF SizeOf(f[p].content) = previousSize THEN "unchanged"
       ELSE "maybe_changed"

\* mtime+size comparison that precedes hashing.
quickChangeCheck(f, p, previousMtime, previousSize) ==
  IF ~CanStat(f, p) THEN "error"
  ELSE IF f[p].mtime = previousMtime /\ SizeOf(f[p].content) = previousSize
       THEN "unchanged"
       ELSE "maybe_changed"

\* ------------------------------------------------------------ discovery
GlobMatches(glob, p) == glob = "**/*" \/ glob = p

\* The walker's file list: existing files that pass the exclude and
\* include globs, in walk order.
Candidates(f, opts) ==
  LET hasDefaultInclude ==
        Len(opts.includeGlobs) = 1 /\ opts.includeGlobs[1] = "**/*"
      ok(p) ==
        /\ f[p].present
        /\ \A i \in 1..Len(opts.excludeGlobs) : ~GlobMatches(opts.excludeGlobs[i], p)
        /\ \/ hasDefaultInclude
           \/ \E i \in 1..Len(opts.includeGlobs) : GlobMatches(opts.includeGlobs[i], p)
  IN SelectPaths(WalkOrder, { p \in Paths : ok(p) })

\* `link` tells whether the path is a symlink and where its target lies;
\* readable, content and mtime are those of the resolved file. The paths
\* come from the walker relative to the root, so isWithinRoot holds.
SkipReason(f, opts, p) ==
  IF ~opts.followSymlinks /\ f[p].link # "none" THEN "Symlink skipped"
  ELSE IF opts.followSymlinks /\ f[p].link = "dangling"
       THEN "Symlink target does not exist"
  ELSE IF ~f[p].readable THEN "Permission denied"
  ELSE IF (SizeOf(f[p].content) + 1023) \div 1024 > opts.maxFileKb
       THEN "File size exceeds max_file_kb"
       ELSE "none"

\* What spawnSync('rg') can give: a file list ("ok", exit status 0 or 1),
\* rg.error ("failed": the program could not be run) or exit status 2.
RgOutcomes == {"ok", "failed", "status2"}

\* A discovery that already fails when the count reaches max_files.
discoverFilesAtLimit(f, opts, rg) ==
  LET cand == Candidates(f, opts)
      kept == SelectSeq(cand, LAMBDA p : SkipReason(f, opts, p) = "none")
      skp  == SelectSeq(cand, LAMBDA p : SkipReason(f, opts, p) # "none")
  IN IF rg = "failed"
     THEN [files |-> << >>, skipped |-> << >>, errors |-> << "ripgrep execution failed" >>]
     ELSE IF rg = "status2"
     THEN [files |-> << >>, skipped |-> << >>, errors |-> << "ripgrep error" >>]
     ELSE IF Len(cand) >= opts.maxFiles
     THEN [files |-> << >>, skipped |-> << >>, errors |-> << "exceeding max_files" >>]
     ELSE [files |-> [i \in 1..Len(kept) |->
                        [path |-> kept[i], size |-> SizeOf(f[kept[i]].content),
                         mtime |-> f[kept[i]].mtime]],
           skipped |-> [i \in 1..Len(skp) |->
                        [path |-> skp[i], reason |-> SkipReason(f, opts, skp[i])]],
           errors |-> << >>]

discoverFiles(f, opts, rg) ==
  LET cand == Candidates(f, opts)
      kept == SelectSeq(cand, LAMBDA p : SkipReason(f, opts, p) = "none")
      skp  == SelectSeq(cand, LAMBDA p : SkipReason(f, opts, p) # "none")
  IN IF rg = "failed"
     THEN [files |-> << >>, skipped |-> << >>, errors |-> << "ripgrep execution failed" >>]
     ELSE IF rg = "status2"
     THEN [files |-> << >>, skipped |-> << >>, errors |-> << "ripgrep error" >>]
     ELSE IF Len(cand) > opts.maxFiles
     THEN [files |-> << >>, skipped |-> << >>, errors |-> << "exceeding max_files" >>]
     ELSE [files |-> [i \in 1..Len(kept) |->
                        [path |-> kept[i], size |-> SizeOf(f[kept[i]].content),
                         mtime |-> f[kept[i]].mtime]],
           skipped |-> [i \in 1..Len(skp) |->
                        [path |-> skp[i], reason |-> SkipReason(f, opts, skp[i])]],
           errors |-> << >>]

\* --------------------------------------------------- config invalidation
RECURSIVE Count(_, _)
Count(s, x) ==
  IF s = << >> THEN 0 ELSE (IF Head(s) = x THEN 1 ELSE 0) + Count(Tail(s), x)

\* Equal length and equal after sorting: equality as multisets.
arraysEqual(a, b) ==
  /\ Len(a) = Len(b)
  /\ \A x \in Range(a) \cup Range(b) : Count(a, x) = Count(b, x)

hasConfigChanged(currentConfig, previousMeta) ==
  IF ~previousMeta.present THEN FALSE
  ELSE LET prevConfig == previousMeta.config
       IN \/ ~arraysEqual(currentConfig.includeGlobs, prevConfig.include_globs)
          \/ ~arraysEqual(currentConfig.excludeGlobs, prevConfig.exclude_globs)
          \/ currentConfig.maxFileKb # prevConfig.max_file_kb
          \/ currentConfig.respectGitignore # prevConfig.respect_gitignore
          \/ ~arraysEqual(currentConfig.adapters, prevConfig.adapters_used)

\* ------------------------------------------------------ change analysis
\* A ledger maps every path to an entry; NoEntry marks a path without one.
NoEntry == [present |-> FALSE]
LedgerPaths(files) == { p \in Paths : files[p].present }
EmptyLedger == [p \in Paths |-> NoEntry]

\* The verdict for one discovered file; status "throw" when hashing throws.
\* previousHashes is the loaded file_hashes.json ([present |-> FALSE] for null).
ChangeOf(f, file, previousHashes) ==
  LET p == file.path IN
  IF ~previousHashes.present \/ ~previousHashes.files[p].present
  THEN LET h == computeFileHash(f, p)
       IN IF h = Throw THEN [path |-> p, status |-> "throw", hash |-> NoHash]
          ELSE [path |-> p, status |-> "new", hash |-> h]
  ELSE LET previous == previousHashes.files[p]
           quickResult == quickChangeCheck(f, p, previous.mtime, previous.size)
       IN IF quickResult = "unchanged"
          THEN [path |-> p, status |-> "unchanged", hash |-> previous.hash]
          ELSE IF quickResult = "error"
          THEN [path |-> p, status |-> "changed", hash |-> NoHash]
          ELSE LET currentHash == computeFileHash(f, p)
               IN IF currentHash = Throw
                  THEN [path |-> p, status |-> "throw", hash |-> NoHash]
                  ELSE IF currentHash = previous.hash
                  THEN [path |-> p, status |-> "unchanged", hash |-> currentHash]
                  ELSE [path |-> p, status |-> "changed", hash |-> currentHash]

analyzeChanges(f, files, previousHashes) ==
  LET per == [i \in 1..Len(files) |-> ChangeOf(f, files[i], previousHashes)]
      currentPaths == { files[i].path : i \in 1..Len(files) }
      gone == IF ~previousHashes.present THEN << >>
              ELSE SelectPaths(WalkOrder, LedgerPaths(previousHashes.files) \ currentPaths)
      deleted == [i \in 1..Len(gone) |->
                    [path |-> gone[i], status |-> "deleted", hash |-> NoHash]]
  IN per \o deleted

\* analyzeChanges has no handler around computeFileHash: the exception
\* leaves analyzeChanges and buildIndex.
Throws(changes) == \E i \in 1..Len(changes) : changes[i].status = "throw"

getFilesToIndex(changes) ==
  { changes[i].path : i \in { j \in 1..Len(changes) :
                                changes[j].status \in {"new", "changed"} } }

getChangedCount(changes) ==
  Cardinality({ j \in 1..Len(changes) : changes[j].status \in {"new", "changed"} })

\* A ledger builder that keeps only the files that were re-indexed.
buildFileHashesChangedOnly(f, changes, files) ==
  LET live == { j \in 1..Len(changes) : changes[j].status \in {"new", "changed"} }
      fileOf(p) == files[CHOOSE i \in 1..Len(files) : files[i].path = p]
      hashOf(j) == IF changes[j].hash # NoHash THEN changes[j].hash
                   ELSE computeFileHash(f, changes[j].path)
      livePaths == { changes[j].path : j \in live }
      idx(p) == CHOOSE j \in live : changes[j].path = p
  IN [threw |-> \E j \in live : hashOf(j) = Throw,
      files |-> [p \in Paths |->
                   IF p \in livePaths
                   THEN [present |-> TRUE, hash |-> hashOf(idx(p)),
                         mtime |-> fileOf(p).mtime, size |-> fileOf(p).size]
                   ELSE NoEntry]]

\* The new ledger: one entry per surviving discovered file, hashing the
\* file again when the verdict carries no hash (threw when that fails).
buildFileHashes(f, changes, files) ==
  LET filePaths == { files[i].path : i \in 1..Len(files) }
      fileOf(p) == files[CHOOSE i \in 1..Len(files) : files[i].path = p]
      live == { j \in 1..Len(changes) :
                  changes[j].status # "deleted" /\ changes[j].path \in filePaths }
      hashOf(j) == IF changes[j].hash # NoHash THEN changes[j].hash
                   ELSE computeFileHash(f, changes[j].path)
      livePaths == { changes[j].path : j \in live }
      idx(p) == CHOOSE j \in live : changes[j].path = p
  IN [threw |-> \E j \in live : hashOf(j) = Throw,
      files |-> [p \in Paths |->
                   IF p \in livePaths
                   THEN [present |-> TRUE, hash |-> hashOf(idx(p)),
                         mtime |-> fileOf(p).mtime, size |-> fileOf(p).size]
                   ELSE NoEntry]]

\* ----------------------------------------------------------- symbol ids
\* An id generator without the collision fallback.
generateSymbolIdNoFallback(filePath, name, line, existingIds, container) ==
  LET baseId == IF container # ""
                THEN filePath \o "::" \o container \o "." \o name
                ELSE filePath \o "::" \o name
  IN [id |-> baseId, ids |-> existingIds \cup {baseId}]

\* container = "" stands for an omitted (or empty, hence falsy) container.
generateSymbolId(filePath, name, line, existingIds, container) ==
  LET baseId == IF container # ""
                THEN filePath \o "::" \o container \o "." \o name
                ELSE filePath \o "::" \o name
      fallbackId == baseId \o ":L" \o ToString(line)
  IN IF baseId \notin existingIds
     THEN [id |-> baseId, ids |-> existingIds \cup {baseId}]
     ELSE [id |-> fallbackId, ids |-> existingIds \cup {fallbackId}]

\* adapterSymbols.map(s => adapterSymbolToSymbol(s, filePath, existingIds))
RECURSIVE adapterSymbolsToSymbols(_, _, _)
adapterSymbolsToSymbols(adapterSymbols, filePath, existingIds) ==
  IF adapterSymbols = << >> THEN [symbols |-> << >>, ids |-> existingIds]
  ELSE LET s == Head(adapterSymbols)
           g == generateSymbolId(filePath, s.name, s.line, existingIds, "")
           rest == adapterSymbolsToSymbols(Tail(adapterSymbols), filePath, g.ids)
       IN [symbols |-> << [symbol_id |-> g.id, name |-> s.name, line |-> s.line,
                           file |-> filePath] >> \o rest.symbols,
           ids |-> rest.ids]

\* A loop that lets a later adapter overwrite an earlier one.
FirstAdapterLastWins(adapters, c) ==
  LET ok == { i \in 1..Len(adapters) :
                /\ isAvailable(adapters[i]) /\ ~adapterThrows(adapters[i])
                /\ adapterExtractSymbols(adapters[i], c) # << >> }
  IN IF ok = {} THEN 0 ELSE CHOOSE i \in ok : \A j \in ok : i >= j

\* Index of the first adapter that is available, does not throw and
\* returns a non-empty list for content c; 0 when there is none.
FirstAdapter(adapters, c) ==
  LET ok == { i \in 1..Len(adapters) :
                /\ isAvailable(adapters[i]) /\ ~adapterThrows(adapters[i])
                /\ adapterExtractSymbols(adapters[i], c) # << >> }
  IN IF ok = {} THEN 0 ELSE CHOOSE i \in ok : \A j \in ok : i <= j

extractSymbolsFromFile(f, filePath, adapters, existingIds) ==
  IF ~CanRead(f, filePath)
  THEN [symbols |-> << >>, adapterUsed |-> "", error |-> "Failed to read file",
        ids |-> existingIds]
  ELSE LET c == f[filePath].content
           k == FirstAdapter(adapters, c)
           r == IF k # 0
                THEN adapterSymbolsToSymbols(adapterExtractSymbols(adapters[k], c),
                                             filePath, existingIds)
                ELSE adapterSymbolsToSymbols(extractSymbolsBaseline(c), filePath,
                                             existingIds)
       IN [symbols |-> r.symbols,
           adapterUsed |-> IF k # 0 THEN adapters[k] ELSE "",
           error |-> "", ids |-> r.ids]

\* Records of symbols.jsonl whose `file` is p, in file order.
loadCachedSymbols(lines, p) == SelectSeq(lines, LAMBDA s : s.file = p)

\* The extraction loop of buildIndex over discovery.files[i..].
RECURSIVE ExtractLoop(_, _, _, _, _, _, _)
ExtractLoop(f, files, i, filesToIndex, cachedLines, adapters, acc) ==
  IF i > Len(files) THEN acc
  ELSE LET p == files[i].path
           cached == loadCachedSymbols(cachedLines, p)
       IN IF p \notin filesToIndex /\ cached # << >>
          THEN ExtractLoop(f, files, i + 1, filesToIndex, cachedLines, adapters,
                 [acc EXCEPT !.allSymbols = @ \o cached,
                             !.existingIds = @ \cup { cached[j].symbol_id : j \in 1..Len(cached) },
                             !.fromCache = @ \cup {p}])
          ELSE LET r == extractSymbolsFromFile(f, p, adapters, acc.existingIds)
               IN ExtractLoop(f, files, i + 1, filesToIndex, cachedLines, adapters,
                    [acc EXCEPT !.allSymbols = @ \o r.symbols,
                                !.existingIds = r.ids,
                                !.warnings = IF r.error # ""
                                             THEN Append(@, [code |-> "ARK_INDEX_EXTRACTION_ERROR",
                                                             file |-> p])
                                             ELSE @,
                                !.adaptersUsed = IF r.adapterUsed # ""
                                                 THEN (IF r.adapterUsed \in Range(@) THEN @
                                                       ELSE Append(@, r.adapterUsed))
                                                 ELSE @,
                                !.extracted = @ \cup {p}])

\* A status that ignores the warnings.
metaStatusAlwaysSuccess(warnings) == "success"

\* status: warnings.length > 0 ? 'partial' : 'success'
metaStatus(warnings) == IF Len(warnings) > 0 THEN "partial" ELSE "success"

\* ------------------------------------------------------------- the state
\* `build` names the build that published the file and, for meta.json,
\* `set` holds what that build passed to writeIndexFiles.
NoOut == [n \in Artifacts |-> [none |-> TRUE]]
AbsentArt == [present |-> FALSE, build |-> 0, data |-> [none |-> TRUE], set |-> NoOut]
NoTemp == [present |-> FALSE, build |-> 0, complete |-> FALSE, data |-> [none |-> TRUE]]
NoStats ==
  [total_files |-> 0, indexed_files |-> 0, skipped_files |-> 0,
   total_symbols |-> 0, incremental |-> FALSE, files_changed |-> 0]

NoRun ==
  [id |-> 0, opts |-> DefaultOpts, editsStart |-> 0, editsEnd |-> 0,
   previousMeta |-> AbsentArt, previousHashes |-> AbsentArt,
   forceFullIndex |-> FALSE, files |-> << >>, skipped |-> << >>,
   warnings |-> << >>, changes |-> << >>, fsSeen |-> [p \in Paths |-> [present |-> FALSE]],
   isIncremental |-> FALSE, fromCache |-> {}, extracted |-> {},
   stats |-> NoStats, out |-> NoOut,
   nCandidates |-> 0, walkerFailed |-> FALSE, writeFailed |-> FALSE, tempAtFailure |-> FALSE, cleanupFailed |-> FALSE]

NoPrev ==
  [kind |-> "none", opts |-> DefaultOpts, lines |-> << >>, files |-> EmptyLedger,
   editsStart |-> 0, editsEnd |-> 0]

NoCall == [fn |-> "none", done |-> FALSE, arg |-> [none |-> TRUE], ret |-> [none |-> TRUE]]

\* Two runs that have built their five outputs and enter writeIndexFiles.
MaxRuns == 2
Runs == 1..MaxRuns
WritersAtStart == [p \in Runs |-> [pos |-> 1, phase |-> "open", status |-> "running"]]

BuilderInit ==
  /\ fs = [p \in Paths |->
             [present |-> TRUE, readable |-> TRUE, mtime |-> 0, link |-> "none",
              content |-> IF p = "a.ts" THEN 1 ELSE 2]]
  /\ edits = 0
  /\ lastEdit = [path |-> "a.ts", kind |-> "none"]
  /\ pub = [n \in Artifacts |-> AbsentArt]
  /\ tmp = [n \in Artifacts |-> NoTemp]
  /\ pc = "idle"
  /\ wpos = 1
  /\ wphase = "open"
  /\ builds = 0
  /\ faults = 0
  /\ run = NoRun
  /\ result = [kind |-> "none", code |-> "", stats |-> NoStats]
  /\ pubAtStart = [n \in Artifacts |-> AbsentArt]
  /\ prevRun = NoPrev
  /\ procs = WritersAtStart

Init == BuilderInit /\ call = NoCall

\* ------------------------------------------------- the live filesystem
\* The working tree is edited by other programs at any time, also while
\* a build is running. Every action is counted in `edits`. The writer
\* does not read the working tree, so an edit made while it runs is taken
\* after it.
FsStep(p, kind, new) ==
  /\ edits < MaxEdits
  /\ pc # "write"
  /\ fs' = [fs EXCEPT ![p] = new]
  /\ edits' = edits + 1
  /\ lastEdit' = [path |-> p, kind |-> kind]
  /\ UNCHANGED << pub, tmp, pc, wpos, wphase, builds, faults, run, result, pubAtStart, prevRun, call, procs >>

\* Rewrite the file with another content; mtime moves to a fresh value.
EditContent(p, c) ==
  /\ fs[p].present /\ c # fs[p].content
  /\ FsStep(p, "content", [fs[p] EXCEPT !.content = c, !.mtime = edits + 1])

\* Rewrite the file and restore its mtime (same-millisecond write, or
\* an explicit utimes call).
EditKeepMtime(p, c) ==
  /\ fs[p].present /\ c # fs[p].content
  /\ FsStep(p, "content_same_mtime", [fs[p] EXCEPT !.content = c])

Touch(p) ==
  /\ fs[p].present
  /\ FsStep(p, "touch", [fs[p] EXCEPT !.mtime = edits + 1])

Delete(p) ==
  /\ fs[p].present
  /\ FsStep(p, "delete", [fs[p] EXCEPT !.present = FALSE])

Chmod(p) ==
  /\ fs[p].present
  /\ FsStep(p, "chmod", [fs[p] EXCEPT !.readable = ~@])

\* ----------------------------------------------------------- buildIndex
Finish(kind, code, stats) ==
  /\ pc' = "idle"
  /\ result' = [kind |-> kind, code |-> code, stats |-> stats]

\* Lines 90-171: load the previous meta and ledger, compare the config,
\* run discovery, fail on max_files, turn skips into warnings.
StartBuild(opts, rg) ==
  /\ pc = "idle"
  /\ builds' = builds + 1
  /\ pubAtStart' = pub
  /\ prevRun' = [kind |-> result.kind, opts |-> run.opts,
                 lines |-> IF result.kind = "success"
                           THEN run.out["symbols.jsonl"].lines ELSE << >>,
                 files |-> IF result.kind = "success"
                           THEN run.out["file_hashes.json"].files ELSE EmptyLedger,
                 editsStart |-> run.editsStart, editsEnd |-> run.editsEnd]
  /\ LET previousMeta == pub["meta.json"]
         previousHashes == IF opts.force THEN AbsentArt ELSE pub["file_hashes.json"]
         currentConfig == [includeGlobs |-> opts.includeGlobs,
                           excludeGlobs |-> opts.excludeGlobs,
                           maxFileKb |-> opts.maxFileKb,
                           respectGitignore |-> opts.respectGitignore,
                           adapters |-> opts.adapters]
         configChanged == hasConfigChanged(currentConfig,
                            IF previousMeta.present
                            THEN [present |-> TRUE, config |-> previousMeta.data.config]
                            ELSE [present |-> FALSE])
         discoveryOptions ==
           [includeGlobs |-> opts.includeGlobs, excludeGlobs |-> opts.excludeGlobs,
            maxFileKb |-> opts.maxFileKb, maxFiles |-> opts.maxFiles,
            respectGitignore |-> opts.respectGitignore,
            followSymlinks |-> FALSE]
         discovery == discoverFiles(fs, discoveryOptions, rg)
         r == [NoRun EXCEPT
                 !.id = builds + 1, !.opts = opts,
                 !.editsStart = edits, !.editsEnd = edits,
                 !.nCandidates = IF rg = "ok"
                                 THEN Len(Candidates(fs, discoveryOptions)) ELSE 0,
                 !.walkerFailed = rg # "ok",
                 !.previousMeta = previousMeta,
                 !.previousHashes =
                    IF previousHashes.present
                    THEN [present |-> TRUE, files |-> previousHashes.data.files]
                    ELSE [present |-> FALSE, files |-> EmptyLedger],
                 !.forceFullIndex = opts.force \/ configChanged,
                 !.files = discovery.files, !.skipped = discovery.skipped,
                 !.warnings = [i \in 1..Len(discovery.skipped) |->
                                 [code |-> "ARK_INDEX_FILE_SKIPPED",
                                  file |-> discovery.skipped[i].path]]]
     IN /\ run' = r
        /\ IF \E i \in 1..Len(discovery.errors) :
                discovery.errors[i] = "exceeding max_files"
           THEN Finish("error", "ARK_INDEX_TOO_MANY_FILES", NoStats)
           ELSE pc' = "analyze" /\ UNCHANGED result
  /\ UNCHANGED << fs, edits, lastEdit, pub, tmp, wpos, wphase, faults, call, procs >>

\* The model runs at most MaxBuilds builds.
BuildStart(opts, rg) == builds < MaxBuilds /\ StartBuild(opts, rg)

\* Lines 173-190: the change verdicts. A hashing failure escapes.
Analyze ==
  /\ pc = "analyze"
  /\ LET changes == IF run.forceFullIndex
                    THEN [i \in 1..Len(run.files) |->
                            [path |-> run.files[i].path, status |-> "new", hash |-> NoHash]]
                    ELSE analyzeChanges(fs, run.files, run.previousHashes)
     IN /\ run' = [run EXCEPT !.changes = changes, !.fsSeen = fs,
                              !.isIncremental = ~run.forceFullIndex /\ run.previousHashes.present,
                              !.editsEnd = edits]
        /\ IF Throws(changes)
           THEN Finish("threw", "", NoStats)
           ELSE pc' = "extract" /\ UNCHANGED result
  /\ UNCHANGED << fs, edits, lastEdit, pub, tmp, wpos, wphase, builds, faults, pubAtStart, prevRun, call, procs >>

\* Lines 192-290: the extraction loop, the new ledger, the stats and the
\* meta record. buildFileHashes hashes again without a handler.
Extract ==
  /\ pc = "extract"
  /\ LET filePaths == { run.files[i].path : i \in 1..Len(run.files) }
         filesToIndex == IF run.forceFullIndex THEN filePaths
                         ELSE getFilesToIndex(run.changes)
         filesChanged == IF run.forceFullIndex THEN Len(run.files)
                         ELSE getChangedCount(run.changes)
         cachedLines == IF run.isIncremental /\ pub["symbols.jsonl"].present
                        THEN pub["symbols.jsonl"].data.lines ELSE << >>
         acc == ExtractLoop(fs, run.files, 1, filesToIndex, cachedLines,
                            run.opts.adapters,
                            [allSymbols |-> << >>, existingIds |-> {},
                             warnings |-> run.warnings, adaptersUsed |-> << >>,
                             fromCache |-> {}, extracted |-> {}])
         fileHashes == buildFileHashes(fs, run.changes, run.files)
         stats == [total_files |-> Len(run.files),
                   indexed_files |-> Len(run.files) - Len(run.skipped),
                   skipped_files |-> Len(run.skipped),
                   total_symbols |-> Len(acc.allSymbols),
                   incremental |-> run.isIncremental,
                   files_changed |-> filesChanged]
         meta == [schema_version |-> "1.0.0",
                  status |-> metaStatus(acc.warnings),
                  stats |-> stats,
                  config |-> [include_globs |-> run.opts.includeGlobs,
                              exclude_globs |-> run.opts.excludeGlobs,
                              max_file_kb |-> run.opts.maxFileKb,
                              respect_gitignore |-> run.opts.respectGitignore,
                              adapters_used |-> acc.adaptersUsed],
                  warnings |-> acc.warnings]
         out == [n \in Artifacts |->
                   CASE n = "file_hashes.json" -> [files |-> fileHashes.files]
                     [] n = "symbols.jsonl" -> [lines |-> acc.allSymbols]
                     [] n = "repo_map.json" -> [files |-> filePaths]
                     [] n = "test_map.json" -> [files |-> filePaths]
                     [] OTHER -> meta]
     IN /\ run' = [run EXCEPT !.warnings = acc.warnings, !.fromCache = acc.fromCache,
                              !.extracted = acc.extracted, !.stats = stats,
                              !.out = out, !.editsEnd = edits]
        /\ IF fileHashes.threw
           THEN Finish("threw", "", NoStats) /\ UNCHANGED << wpos, wphase >>
           ELSE pc' = "write" /\ wpos' = 1 /\ wphase' = "open" /\ UNCHANGED result
  /\ UNCHANGED << fs, edits, lastEdit, pub, tmp, builds, faults, pubAtStart, prevRun, call, procs >>

\* ---------------------------------------------------------------- writer
\* writeFileSync(tempPath, ...) creates or truncates the temp file ...
WriteTempBegin ==
  /\ pc = "write" /\ wphase = "open"
  /\ tmp' = [tmp EXCEPT ![WriteOrder[wpos]] =
               [present |-> TRUE, build |-> run.id, complete |-> FALSE,
                data |-> run.out[WriteOrder[wpos]]]]
  /\ wphase' = "writing"
  /\ UNCHANGED << fs, edits, lastEdit, pub, pc, wpos, builds, faults, run, result, pubAtStart, prevRun, call, procs >>

\* ... and returns once the whole serialization is in it.
WriteTempEnd ==
  /\ pc = "write" /\ wphase = "writing"
  /\ tmp' = [tmp EXCEPT ![WriteOrder[wpos]].complete = TRUE]
  /\ wphase' = "rename"
  /\ UNCHANGED << fs, edits, lastEdit, pub, pc, wpos, builds, faults, run, result, pubAtStart, prevRun, call, procs >>

\* renameSync(tempPath, filePath); after the last one buildIndex returns.
Rename ==
  /\ pc = "write" /\ wphase = "rename"
  /\ LET n == WriteOrder[wpos]
     IN /\ pub' = [pub EXCEPT ![n] = [present |-> TRUE, build |-> tmp[n].build,
                                      data |-> tmp[n].data,
                                      set |-> IF n = "meta.json" THEN run.out ELSE NoOut]]
        /\ tmp' = [tmp EXCEPT ![n] = NoTemp]
  /\ IF wpos = Len(WriteOrder)
     THEN /\ Finish("success", "", run.stats)
          /\ run' = [run EXCEPT !.editsEnd = edits]
          /\ wpos' = 1 /\ wphase' = "open"
     ELSE /\ wpos' = wpos + 1 /\ wphase' = "open"
          /\ UNCHANGED << pc, result, run >>
  /\ UNCHANGED << fs, edits, lastEdit, builds, faults, pubAtStart, prevRun, call, procs >>

\* A cleanup that unlinks nothing.
cleanupTempFilesKeepsAll(t, fails) == t

\* cleanupTempFiles: unlink every .*.tmp of the directory. readdirSync or
\* unlinkSync can throw (`fails`); the error is swallowed and the files
\* not yet unlinked stay. The writer has at most one temp file, so a
\* failing cleanup leaves the directory as it found it.
cleanupTempFiles(t, fails) == IF fails THEN t ELSE [n \in Artifacts |-> NoTemp]

\* A writeFileSync or renameSync throws: the handler of buildIndex cleans
\* the temp files and returns ARK_INDEX_WRITE_ERROR.
WriteFail(cleanupFails) ==
  /\ pc = "write"
  /\ faults < MaxFaults
  /\ faults' = faults + 1
  /\ tmp' = cleanupTempFiles(tmp, cleanupFails)
  /\ Finish("error", "ARK_INDEX_WRITE_ERROR", NoStats)
  /\ run' = [run EXCEPT !.editsEnd = edits, !.writeFailed = TRUE,
                        !.tempAtFailure = \E n \in Artifacts : tmp[n].present,
                        !.cleanupFailed = cleanupFails]
  /\ wpos' = 1 /\ wphase' = "open"
  /\ UNCHANGED << fs, edits, lastEdit, pub, builds, pubAtStart, prevRun, call, procs >>

\* The process is killed: nothing more runs, not even the cleanup.
Abort ==
  /\ pc # "idle"
  /\ faults < MaxFaults
  /\ faults' = faults + 1
  /\ Finish("aborted", "", NoStats)
  /\ run' = [run EXCEPT !.editsEnd = edits]
  /\ wpos' = 1 /\ wphase' = "open"
  /\ UNCHANGED << fs, edits, lastEdit, pub, tmp, builds, pubAtStart, prevRun, call, procs >>

\* Builds with every option choice over a tree that is edited in every
\* way, with a walker that runs.
Next ==
  \/ \E p \in Paths, c \in Contents : EditContent(p, c)
  \/ \E p \in Paths, c \in Contents : EditKeepMtime(p, c)
  \/ \E p \in Paths : Touch(p)
  \/ \E p \in Paths : Delete(p)
  \/ \E p \in Paths : Chmod(p)
  \/ \E opts \in OptionChoices : BuildStart(opts, "ok")
  \/ Analyze
  \/ Extract
  \/ WriteTempBegin
  \/ WriteTempEnd
  \/ Rename
  \/ \E cleanupFails \in BOOLEAN : WriteFail(cleanupFails)
  \/ Abort

Spec == Init /\ [][Next]_vars

\* ------------------------------------------------- longer build series
\* Series of up to MaxDeepBuilds builds with the default options or with
\* adapter "A", in a tree where a.ts is rewritten (its mtime moves); a
\* build can be killed, a write can fail and the walker can fail.
MaxDeepBuilds == 3
DeepOptions == { DefaultOpts, [DefaultOpts EXCEPT !.adapters = << "A" >>] }

DeepBuildStart(opts, rg) == builds < MaxDeepBuilds /\ StartBuild(opts, rg)

DeepNext ==
  \/ \E c \in Contents : EditContent("a.ts", c)
  \/ \E opts \in DeepOptions, rg \in RgOutcomes : DeepBuildStart(opts, rg)
  \/ Analyze
  \/ Extract
  \/ WriteTempBegin
  \/ WriteTempEnd
  \/ Rename
  \/ \E cleanupFails \in BOOLEAN : WriteFail(cleanupFails)
  \/ Abort

DeepSpec == Init /\ [][DeepNext]_vars

\* ------------------------------------------------------ any working tree
\* Builds over every working tree of the two paths: each file readable or
\* not, with any of the contents (content 3 is over the default
\* max_file_kb). The tree stays as it is while the builds run.
Trees ==
  [Paths -> { [present |-> TRUE, readable |-> r, mtime |-> 0, link |-> "none",
               content |-> c] : r \in BOOLEAN, c \in Contents }]

TreeOptions == { DefaultOpts, [DefaultOpts EXCEPT !.maxFileKb = 2] }

TreeInit ==
  /\ fs \in Trees
  /\ edits = 0
  /\ lastEdit = [path |-> "a.ts", kind |-> "none"]
  /\ pub = [n \in Artifacts |-> AbsentArt]
  /\ tmp = [n \in Artifacts |-> NoTemp]
  /\ pc = "idle"
  /\ wpos = 1
  /\ wphase = "open"
  /\ builds = 0
  /\ faults = 0
  /\ run = NoRun
  /\ result = [kind |-> "none", code |-> "", stats |-> NoStats]
  /\ pubAtStart = [n \in Artifacts |-> AbsentArt]
  /\ prevRun = NoPrev
  /\ procs = WritersAtStart
  /\ call = NoCall

TreeBuildStart(opts) == builds < MaxBuilds /\ StartBuild(opts, "ok")

TreeNext ==
  \/ \E opts \in TreeOptions : TreeBuildStart(opts)
  \/ Analyze
  \/ Extract
  \/ WriteTempBegin
  \/ WriteTempEnd
  \/ Rename

TreeSpec == TreeInit /\ [][TreeNext]_vars

\* ------------------------------------------------------ overlapping runs
\* Two processes run buildIndex on the same index directory. Both use the
\* same temp path for an artifact, and nothing serialises their system
\* calls. A step is one writeFileSync or one renameSync.

\* writeFileSync(tempPath, ...): creates the temp file or replaces its
\* content, whoever wrote it.
ProcWriteTemp(p) ==
  /\ procs[p].status = "running" /\ procs[p].phase = "open"
  /\ tmp' = [tmp EXCEPT ![WriteOrder[procs[p].pos]] =
               [present |-> TRUE, build |-> p, complete |-> TRUE,
                data |-> [run |-> p]]]
  /\ procs' = [procs EXCEPT ![p].phase = "rename"]
  /\ UNCHANGED << fs, edits, lastEdit, pub, pc, wpos, wphase, builds, faults, run,
                  result, pubAtStart, prevRun, call >>

\* renameSync(tempPath, filePath) with the temp file in place: the file
\* is published with the content the temp file has now; after the fifth
\* one buildIndex returns success.
ProcRename(p) ==
  /\ procs[p].status = "running" /\ procs[p].phase = "rename"
  /\ LET n == WriteOrder[procs[p].pos]
     IN /\ tmp[n].present
        /\ pub' = [pub EXCEPT ![n] = [present |-> TRUE, build |-> tmp[n].build,
                                      data |-> tmp[n].data, set |-> NoOut]]
        /\ tmp' = [tmp EXCEPT ![n] = NoTemp]
  /\ procs' = [procs EXCEPT ![p] =
                 IF procs[p].pos = Len(WriteOrder)
                 THEN [@ EXCEPT !.status = "success"]
                 ELSE [@ EXCEPT !.pos = @ + 1, !.phase = "open"]]
  /\ UNCHANGED << fs, edits, lastEdit, pc, wpos, wphase, builds, faults, run,
                  result, pubAtStart, prevRun, call >>

\* renameSync with the temp file gone (ENOENT): the handler of buildIndex
\* unlinks every temp file of the directory and returns
\* ARK_INDEX_WRITE_ERROR.
ProcRenameFails(p) ==
  /\ procs[p].status = "running" /\ procs[p].phase = "rename"
  /\ ~tmp[WriteOrder[procs[p].pos]].present
  /\ tmp' = cleanupTempFiles(tmp, FALSE)
  /\ procs' = [procs EXCEPT ![p].status = "ARK_INDEX_WRITE_ERROR"]
  /\ UNCHANGED << fs, edits, lastEdit, pub, pc, wpos, wphase, builds, faults, run,
                  result, pubAtStart, prevRun, call >>

ConcNext ==
  \/ \E p \in Runs : ProcWriteTemp(p)
  \/ \E p \in Runs : ProcRename(p)
  \/ \E p \in Runs : ProcRenameFails(p)

ConcSpec == Init /\ [][ConcNext]_vars

\* ===================================================== direct calls
\* The exported functions called directly, one call per behaviour.
Links == {"none", "inside", "outside", "dangling"}

\* discoverFiles over a tree whose a.ts may be a symlink.
DiscoverCalls ==
  { [fn |-> "discoverFiles", done |-> FALSE, ret |-> [none |-> TRUE],
     arg |-> [f |-> [p \in Paths |->
                       IF p = "a.ts"
                       THEN [present |-> TRUE, readable |-> r, mtime |-> 0,
                             link |-> l, content |-> c]
                       ELSE [present |-> TRUE, readable |-> TRUE, mtime |-> 0,
                             link |-> "none", content |-> 2]],
              opts |-> [includeGlobs |-> << "**/*" >>, excludeGlobs |-> << >>,
                        maxFileKb |-> 1, maxFiles |-> m,
                        respectGitignore |-> TRUE, followSymlinks |-> fl],
              rg |-> rg]] :
      r \in BOOLEAN, l \in Links, c \in {1, 3}, m \in {1, 2}, fl \in BOOLEAN,
      rg \in RgOutcomes }

CallDiscoverFiles ==
  /\ call.fn = "discoverFiles" /\ ~call.done
  /\ call' = [call EXCEPT !.done = TRUE,
                          !.ret = discoverFiles(call.arg.f, call.arg.opts,
                                                call.arg.rg)]
  /\ UNCHANGED builderVars

\* extractSymbolsFromFile on a.ts for every list of at most MaxAdapters
\* adapters.
MaxAdapters == 3
AdapterLists ==
  UNION { [1..n -> AdapterNames] : n \in 0..MaxAdapters }

ExtractCalls ==
  { [fn |-> "extractSymbolsFromFile", done |-> FALSE, ret |-> [none |-> TRUE],
     arg |-> [f |-> [p \in Paths |->
                       [present |-> TRUE, readable |-> r, mtime |-> 0,
                        link |-> "none", content |-> c]],
              filePath |-> "a.ts", adapters |-> ads]] :
      r \in BOOLEAN, c \in Contents, ads \in AdapterLists }

CallExtractSymbolsFromFile ==
  /\ call.fn = "extractSymbolsFromFile" /\ ~call.done
  /\ call' = [call EXCEPT !.done = TRUE,
                          !.ret = extractSymbolsFromFile(call.arg.f, call.arg.filePath,
                                                         call.arg.adapters, {})]
  /\ UNCHANGED builderVars

\* ---------------------------------------------------------- verifyIndex
\* A string that the code splits is a sequence of one-character strings.
RECURSIVE split(_, _)
split(str, sep) ==
  LET at == { i \in 1..Len(str) : str[i] = sep }
  IN IF at = {} THEN << str >>
     ELSE LET i == CHOOSE k \in at : \A j \in at : k <= j
          IN << SubSeq(str, 1, i - 1) >> \o split(SubSeq(str, i + 1, Len(str)), sep)

RequiredFiles ==
  << "meta.json", "repo_map.json", "symbols.jsonl", "test_map.json",
     "file_hashes.json" >>

\* A result that is always valid.
validOfAlways(errors) == TRUE

\* valid: errors.length === 0
validOf(errors) == Len(errors) = 0

\* Numbers of the non-blank lines of symbols.jsonl that are not JSON.
RECURSIVE invalidLines(_, _)
invalidLines(symbolLines, i) ==
  IF i > Len(symbolLines) THEN << >>
  ELSE (IF symbolLines[i] = "junk"
        THEN << [kind |-> "invalid JSON", file |-> "symbols.jsonl", line |-> i] >>
        ELSE << >>) \o invalidLines(symbolLines, i + 1)

Err(kind, file) == [kind |-> kind, file |-> file, line |-> 0]

\* dir describes the index directory: which files exist, which of them
\* JSON.parse accepts, the fields of meta.json, the number of keys of
\* file_hashes.files and the lines of symbols.jsonl ("json", "junk" or
\* "blank"). A meta.json that parses without the fields read here makes
\* the property access throw out of verifyIndex (threw), and so does a
\* file_hashes.json that parses without `files` (Object.keys(undefined)).
verifyIndex(dir) ==
  LET missing == SelectSeq(RequiredFiles, LAMBDA n : ~dir.exists[n])
      Ret(v, e, w) == [threw |-> FALSE, valid |-> v, errors |-> e, warnings |-> w]
  IN IF Len(missing) > 0
     THEN Ret(FALSE, [i \in 1..Len(missing) |-> Err("missing", missing[i])], << >>)
     ELSE IF ~dir.parses["meta.json"]
     THEN Ret(FALSE, << Err("unparseable", "meta.json") >>, << >>)
     ELSE IF ~dir.metaShaped
     THEN [threw |-> TRUE, valid |-> FALSE, errors |-> << >>, warnings |-> << >>]
     ELSE
       LET major == split(dir.meta.schema_version, ".")[1]
           w1 == IF major # << "1" >> THEN << "Schema version mismatch" >> ELSE << >>
       IN IF ~dir.parses["file_hashes.json"]
          THEN Ret(FALSE, << Err("unparseable", "file_hashes.json") >>, w1)
          ELSE IF ~dir.hashesShaped
          THEN [threw |-> TRUE, valid |-> FALSE, errors |-> << >>, warnings |-> << >>]
          ELSE
            LET w2 == w1 \o (IF dir.meta.total_files # dir.hashFileCount
                             THEN << "File count mismatch" >> ELSE << >>)
                symbolLines == SelectSeq(dir.lines, LAMBDA l : l # "blank")
                e3 == IF dir.symbolsReadable
                      THEN invalidLines(symbolLines, 1)
                      ELSE << Err("unreadable", "symbols.jsonl") >>
                w3 == w2 \o (IF dir.symbolsReadable
                                 /\ dir.meta.total_symbols # Len(symbolLines)
                              THEN << "Symbol count mismatch" >> ELSE << >>)
                e4 == e3 \o (IF dir.parses["repo_map.json"] THEN << >>
                             ELSE << Err("unparseable", "repo_map.json") >>)
                e5 == e4 \o (IF dir.parses["test_map.json"] THEN << >>
                             ELSE << Err("unparseable", "test_map.json") >>)
            IN Ret(validOf(e5), e5, w3)

MaxLines == 3
LineLists == UNION { [1..n -> {"json", "junk", "blank"}] : n \in 0..MaxLines }
Versions ==
  { << "1", ".", "0", ".", "0" >>, << "1", ".", "4", ".", "2" >>,
    << "2", ".", "0", ".", "0" >>, << "1", "0", ".", "0", ".", "0" >> }
JsonFiles == {"meta.json", "repo_map.json", "test_map.json", "file_hashes.json"}

GoodDir ==
  [exists |-> [n \in Artifacts |-> TRUE], parses |-> [n \in JsonFiles |-> TRUE],
   metaShaped |-> TRUE, hashesShaped |-> TRUE,
   meta |-> [schema_version |-> << "1", ".", "0", ".", "0" >>,
             total_files |-> 1, total_symbols |-> 1],
   hashFileCount |-> 1, symbolsReadable |-> TRUE, lines |-> << "json" >>]

VerifyDirs ==
  { [GoodDir EXCEPT !.exists = [n \in Artifacts |-> n \notin gone]] :
      gone \in SUBSET Artifacts }
  \cup { [GoodDir EXCEPT !.metaShaped = FALSE] }
  \cup { [GoodDir EXCEPT !.hashesShaped = FALSE] }
  \cup { [GoodDir EXCEPT !.parses = [n \in JsonFiles |-> n \notin bad],
                         !.meta = [schema_version |-> v, total_files |-> tf,
                                   total_symbols |-> ts],
                         !.symbolsReadable = sr, !.lines = ls] :
           bad \in SUBSET JsonFiles, v \in Versions, tf \in {1, 2}, ts \in {1, 2},
           sr \in BOOLEAN, ls \in LineLists }

VerifyCalls ==
  { [fn |-> "verifyIndex", done |-> FALSE, ret |-> [none |-> TRUE], arg |-> d] :
      d \in VerifyDirs }

CallVerifyIndex ==
  /\ call.fn = "verifyIndex" /\ ~call.done
  /\ call' = [call EXCEPT !.done = TRUE, !.ret = verifyIndex(call.arg)]
  /\ UNCHANGED builderVars

\* ------------------------------------------------------------- repo map
\* A path is the sequence of its components; << >> is the root (''), and
\* << "." >> the path of the root module.
RepoFiles ==
  << << "README.md" >>, << "package.json" >>, << "a", "package.json" >>,
     << "a", "lib", "y.ts" >>, << "a", "b", "package.json" >>,
     << "a", "b", "lib", "x.ts" >>, << "a", "b", "src", "m1.ts" >>,
     << "a", "b", "src", "m2.ts" >>, << "a", "b", "src", "m3.ts" >>,
     << "c", "z.ts" >> >>

\* The directories of RepoFiles in the order of String.localeCompare.
DirOrder ==
  << << "." >>, << "a" >>, << "a", "b" >>, << "a", "b", "lib" >>,
     << "a", "b", "src" >>, << "a", "lib" >>, << "c" >> >>
localeRank(d) == CHOOSE i \in 1..Len(DirOrder) : DirOrder[i] = d

basename(p) == p[Len(p)]
dirname(p) == SubSeq(p, 1, Len(p) - 1)
\* p.startsWith(d + '/'), for d other than ''
startsWithDir(p, d) == Len(p) > Len(d) /\ SubSeq(p, 1, Len(d)) = d

extname(name) ==
  CASE name \in {"x.ts", "y.ts", "z.ts", "m1.ts", "m2.ts", "m3.ts", "f1.ts",
                "f2.ts", "f3.ts", "types.ts", "small.ts", "big.ts", "imp.ts"} -> ".ts"
    [] name = "package.json" -> ".json"
    [] OTHER -> ".md"
CODE_EXTENSIONS ==
  { ".js", ".jsx", ".ts", ".tsx", ".mjs", ".cjs", ".py", ".pyi", ".rs", ".go",
    ".java", ".kt", ".kts", ".c", ".h", ".cpp", ".hpp", ".cc", ".hh", ".rb",
    ".php", ".sh", ".bash", ".zsh", ".swift", ".scala", ".clj", ".ex", ".exs",
    ".erl", ".hs" }
isCodeFile(p) == extname(basename(p)) \in CODE_EXTENSIONS

IMPORTANT_SUBDIRS ==
  { "components", "lib", "hooks", "utils", "services", "handlers", "actions",
    "api", "store", "data", "types", "models", "views", "controllers",
    "middleware", "routes", "pages", "features", "modules", "core", "common",
    "shared" }
PACKAGE_MANIFESTS ==
  { "package.json", "Cargo.toml", "go.mod", "pyproject.toml", "setup.py" }
MIN_CODE_FILES_FOR_SUBDIR == 3
MAX_SUBDIRS_PER_MODULE == 10
LARGE_DIR_THRESHOLD == 20

findManifestDirectories(files) ==
  { dirname(files[i]) : i \in { j \in 1..Len(files) :
                                   basename(files[j]) \in PACKAGE_MANIFESTS } }

findCodeDirectories(files) ==
  { << files[i][1] >> : i \in { j \in 1..Len(files) :
                                   isCodeFile(files[j]) /\ Len(files[j]) > 1 } }

\* The first paragraph of the README.md of the directory, "null" without one.
extractDescriptionFromReadme(files, moduleDir) ==
  IF (moduleDir \o << "README.md" >>) \in Range(files) THEN "readme" ELSE "null"

detectModules(files) ==
  LET manifestDirs == findManifestDirectories(files)
      codeDirs == findCodeDirectories(files)
      hasRootManifest == << >> \in manifestDirs
      uncovered == { d \in codeDirs :
                       ~\E m \in manifestDirs : d = m \/ startsWithDir(d, m) }
      moduleDirs == manifestDirs \cup (IF hasRootManifest THEN {} ELSE uncovered)
      modulePath(d) == IF d = << >> THEN << "." >> ELSE d
      sorted == SelectSeq(DirOrder, LAMBDA q : \E d \in moduleDirs : modulePath(d) = q)
  IN [i \in 1..Len(sorted) |->
        [path |-> sorted[i],
         description |-> extractDescriptionFromReadme(files,
                           IF sorted[i] = << "." >> THEN << >> ELSE sorted[i]),
         entrypoints |-> << >>, key_files |-> << >>]]

\* The directory levels of every module file, file by file, level by level.
RECURSIVE levelDirs(_, _, _)
levelDirs(moduleFiles, nm, depth) ==
  IF moduleFiles = << >> THEN << >>
  ELSE LET f == Head(moduleFiles)
           rel == Len(f) - Len(nm)
           n == IF rel - 1 < depth THEN rel - 1 ELSE depth
       IN [k \in 1..n |-> SubSeq(f, 1, Len(nm) + k)]
            \o levelDirs(Tail(moduleFiles), nm, depth)

\* Keys of a Map in insertion order.
RECURSIVE insertionOrder(_, _)
insertionOrder(keys, seen) ==
  IF keys = << >> THEN << >>
  ELSE IF Head(keys) \in seen THEN insertionOrder(Tail(keys), seen)
  ELSE << Head(keys) >> \o insertionOrder(Tail(keys), seen \cup {Head(keys)})

RECURSIVE SumSeq(_)
SumSeq(q) == IF q = << >> THEN 0 ELSE Head(q) + SumSeq(Tail(q))

\* The selection loop over the candidates sorted by score: a candidate
\* is dropped when it is large with few direct files, when a child is
\* already selected and it has few direct files, or when its parent is
\* selected and it has neither a description nor 10 code files.
RECURSIVE selectSubdirs(_, _, _)
selectSubdirs(candidates, k, picked) ==
  IF k > Len(candidates) \/ Len(picked) >= MAX_SUBDIRS_PER_MODULE THEN picked
  ELSE LET c == candidates[k]
           selectedPaths == { picked[i].path : i \in 1..Len(picked) }
           hasSelectedChild == \E sp \in selectedPaths : startsWithDir(sp, c.path)
           hasSelectedParent == \E sp \in selectedPaths : startsWithDir(c.path, sp)
           codeFileCount == IF c.large THEN c.directCount ELSE c.codeFileCount
           skip == \/ c.large /\ c.directCount < 10
                   \/ hasSelectedChild /\ c.directCount < MIN_CODE_FILES_FOR_SUBDIR
                   \/ hasSelectedParent /\ ~c.description /\ codeFileCount < 10
       IN IF skip THEN selectSubdirs(candidates, k + 1, picked)
          ELSE selectSubdirs(candidates, k + 1, Append(picked,
                 [name |-> c.name, path |-> c.path, fileCount |-> c.fileCount,
                  codeFileCount |-> codeFileCount]))

detectSubdirectories(files, modulePath, modulePaths) ==
  LET nm == IF modulePath = << "." >> THEN << >> ELSE modulePath
      moduleFiles == SelectSeq(files, LAMBDA f : nm = << >> \/ startsWithDir(f, nm))
      \* subdirMap: a level that is itself a module is skipped, the levels
      \* below it are not
      subdirs == insertionOrder(
                   SelectSeq(levelDirs(moduleFiles, nm, 3),
                             LAMBDA d : d \notin modulePaths), {})
      D == Range(subdirs)
      inDir(d) == { i \in 1..Len(moduleFiles) : startsWithDir(moduleFiles[i], d) }
      fileCount(d) == Cardinality(inDir(d))
      codeCount(d) == Cardinality({ i \in inDir(d) : isCodeFile(moduleFiles[i]) })
      nameImportant(d) == basename(d) \in IMPORTANT_SUBDIRS
      \* second pass: below a large important directory, 6 code files suffice
      isImportant(d) ==
        \/ nameImportant(d)
        \/ /\ codeCount(d) >= MIN_CODE_FILES_FOR_SUBDIR * 2
           /\ \E q \in D : /\ startsWithDir(d, q) /\ nameImportant(q)
                            /\ codeCount(q) >= LARGE_DIR_THRESHOLD
      cands == SelectSeq(subdirs, LAMBDA d : isImportant(d)
                                    \/ codeCount(d) >= MIN_CODE_FILES_FOR_SUBDIR)
      n == Len(cands)
      hasImportantChildren(d) ==
        \E o \in D : /\ startsWithDir(o, d) /\ isImportant(o)
                      /\ codeCount(o) >= MIN_CODE_FILES_FOR_SUBDIR
      large(d) == hasImportantChildren(d) /\ codeCount(d) > LARGE_DIR_THRESHOLD
      score(d) == codeCount(d) + (IF isImportant(d) THEN 50 ELSE 0)
                    - (IF large(d) THEN 30 ELSE 0)
                    + (IF Len(d) - Len(nm) > 1 THEN 10 ELSE 0)
      \* candidates.sort((a, b) => b.score - a.score), a stable sort
      byScore(i) == 1 + Cardinality({ j \in 1..n :
                          \/ score(cands[j]) > score(cands[i])
                          \/ score(cands[j]) = score(cands[i]) /\ j < i })
      sorted == [k \in 1..n |-> cands[CHOOSE i \in 1..n : byScore(i) = k]]
      below(d) == SelectSeq(cands, LAMBDA c : startsWithDir(c, d))
      childCode(d) == SumSeq([i \in 1..Len(below(d)) |-> codeCount(below(d)[i])])
      directCount(d) == IF codeCount(d) - childCode(d) > 0
                        THEN codeCount(d) - childCode(d) ELSE 0
      scored == [k \in 1..n |->
                   [name |-> basename(sorted[k]), path |-> sorted[k],
                    fileCount |-> fileCount(sorted[k]),
                    codeFileCount |-> codeCount(sorted[k]),
                    large |-> large(sorted[k]),
                    directCount |-> directCount(sorted[k]),
                    description |-> nameImportant(sorted[k])]]
      res == selectSubdirs(scored, 1, << >>)
      \* final sort: codeFileCount descending, then path
      before(x, y) == \/ x.codeFileCount > y.codeFileCount
                      \/ /\ x.codeFileCount = y.codeFileCount
                         /\ localeRank(x.path) < localeRank(y.path)
      final(i) == 1 + Cardinality({ j \in 1..Len(res) : before(res[j], res[i]) })
  IN [k \in 1..Len(res) |-> res[CHOOSE i \in 1..Len(res) : final(i) = k]]

\* The modules of the repo map with their subdirectories; entrypoints and
\* key files are filled by other detectors.
buildRepoMap(files) ==
  LET modules == detectModules(files)
      modulePaths == { IF modules[i].path = << "." >> THEN << >> ELSE modules[i].path :
                         i \in 1..Len(modules) }
  IN [modules |->
        [i \in 1..Len(modules) |->
           [path |-> modules[i].path, description |-> modules[i].description,
            subdirectories |->
              IF modules[i].path = << "." >> THEN << >>
              ELSE detectSubdirectories(files, modules[i].path, modulePaths)]]]

RepoCalls ==
  { [fn |-> "buildRepoMap", done |-> FALSE, ret |-> [none |-> TRUE],
     arg |-> SelectSeq(RepoFiles, LAMBDA f : f \in S)] :
      S \in SUBSET Range(RepoFiles) }

CallBuildRepoMap ==
  /\ call.fn = "buildRepoMap" /\ ~call.done
  /\ call' = [call EXCEPT !.done = TRUE, !.ret = buildRepoMap(call.arg)]
  /\ UNCHANGED builderVars

\* ------------------------------------------------------------- test map
\* A string whose characters the code inspects is a sequence of
\* one-character strings; << >> stands for both '' and null, which the
\* code below never tells apart (`testName || ''`, `if (testName)`).
includes(str, sub) ==
  \E i \in 0..(Len(str) - Len(sub)) : SubSeq(str, i + 1, i + Len(sub)) = sub
endsWith(str, suf) ==
  Len(str) >= Len(suf) /\ SubSeq(str, Len(str) - Len(suf) + 1, Len(str)) = suf

lowerChar(ch) ==
  CASE ch = "B" -> "b" [] ch = "E" -> "e" [] ch = "I" -> "i"
    [] ch = "P" -> "p" [] ch = "S" -> "s" [] ch = "T" -> "t"
    [] OTHER -> ch
toLowerCase(str) == [i \in 1..Len(str) |-> lowerChar(str[i])]

determineTestTier(filePath, testName) ==
  LET lowerPath == toLowerCase(filePath)
      lowerName == toLowerCase(testName)
  IN IF \/ includes(lowerPath, << "i", "n", "t", "e", "g", "r", "a", "t", "i", "o", "n" >>)
        \/ includes(lowerPath, << "e", "2", "e" >>)
        \/ includes(lowerName, << "i", "n", "t", "e", "g", "r", "a", "t", "i", "o", "n" >>)
        \/ includes(lowerName, << "e", "2", "e" >>)
     THEN "integration"
     ELSE IF \/ includes(lowerPath, << "s", "l", "o", "w" >>)
             \/ includes(lowerPath, << "b", "e", "n", "c", "h", "m", "a", "r", "k" >>)
             \/ includes(lowerName, << "s", "l", "o", "w" >>)
             \/ includes(lowerName, << "b", "e", "n", "c", "h", "m", "a", "r", "k" >>)
             \/ includes(lowerName, << "p", "e", "r", "f" >>)
          THEN "slow"
          ELSE "fast"

\* Paths and names that carry the tier words in either case, or none.
TierWords ==
  { << "x" >>, << "I", "n", "t", "e", "g", "r", "a", "t", "i", "o", "n" >>,
    << "a", "E", "2", "E" >>, << "s", "l", "o", "w", "/", "x" >>,
    << "B", "e", "n", "c", "h", "m", "a", "r", "k", "s" >>,
    << "p", "e", "r", "f", "/", "x" >>, << "P", "e", "r", "f" >> }

TierCalls ==
  { [fn |-> "determineTestTier", done |-> FALSE, ret |-> [none |-> TRUE],
     arg |-> [filePath |-> p, testName |-> n]] :
      p \in TierWords, n \in TierWords \cup { << >> } }

CallDetermineTestTier ==
  /\ call.fn = "determineTestTier" /\ ~call.done
  /\ call' = [call EXCEPT !.done = TRUE,
                          !.ret = [tier |-> determineTestTier(call.arg.filePath,
                                                              call.arg.testName)]]
  /\ UNCHANGED builderVars

\* The paths here have a basename that does not start with a dot, so the
\* extension is the suffix from the last dot.
detectTestFramework(filePath) ==
  LET lower == toLowerCase(filePath)
  IN IF endsWith(filePath, << "_", "t", "e", "s", "t", ".", "g", "o" >>) THEN "go"
     ELSE IF endsWith(lower, << ".", "r", "s" >>) THEN "rust"
     ELSE IF endsWith(lower, << ".", "p", "y" >>) THEN "pytest"
     ELSE IF \E e \in { << ".", "t", "s" >>, << ".", "t", "s", "x" >>,
                        << ".", "j", "s" >>, << ".", "j", "s", "x" >>,
                        << ".", "m", "j", "s" >> } : endsWith(lower, e)
          THEN "jest"
          ELSE "unknown"

\* A line of a test file is what the parsers' patterns make of it: kind
\* "jest" matches describe/it/test('name', "def" matches def test_name(,
\* "func" matches func TestName(, "attr" is #[test], "fn" matches
\* fn name(, "other" matches none; `name` is the captured group.
RECURSIVE matchingLines(_, _, _)
matchingLines(lines, i, kind) ==
  IF i > Len(lines) THEN << >>
  ELSE (IF lines[i].kind = kind
        THEN << [name |-> lines[i].name, line |-> i] >> ELSE << >>)
       \o matchingLines(lines, i + 1, kind)

parseJestTests(lines) == matchingLines(lines, 1, "jest")
parsePytestTests(lines) == matchingLines(lines, 1, "def")
parseGoTests(lines) == matchingLines(lines, 1, "func")

\* #[test] arms the parser; the next line is taken when it is a fn.
RECURSIVE parseRustLoop(_, _, _, _)
parseRustLoop(lines, i, expectingFn, testAttrLine) ==
  IF i > Len(lines) THEN << >>
  ELSE IF lines[i].kind = "attr" THEN parseRustLoop(lines, i + 1, TRUE, i)
  ELSE IF expectingFn
       THEN (IF lines[i].kind = "fn"
             THEN << [name |-> lines[i].name, line |-> testAttrLine] >> ELSE << >>)
            \o parseRustLoop(lines, i + 1, FALSE, testAttrLine)
       ELSE parseRustLoop(lines, i + 1, expectingFn, testAttrLine)

parseRustTests(lines) == parseRustLoop(lines, 1, FALSE, 0)

parseTestNames(content, framework) ==
  CASE framework \in {"jest", "mocha", "vitest"} -> parseJestTests(content)
    [] framework = "pytest" -> parsePytestTests(content)
    [] framework = "go" -> parseGoTests(content)
    [] framework = "rust" -> parseRustTests(content)
    [] OTHER -> << >>

\* readFileSync throws on an unreadable file: no tests.
parseTestsFromFile(file, framework) ==
  IF ~file.readable THEN << >> ELSE parseTestNames(file.lines, framework)

\* line = 0 stands for null.
generateTestId(filePath, testName, line, unnamedCounter) ==
  IF testName # << >> THEN filePath \o << ":", ":" >> \o testName
  ELSE IF line # 0
       THEN filePath \o << ":", ":", "unnamed_test", ":", "L", ToString(line) >>
       ELSE filePath \o << ":", ":", "unnamed_test", ":", ToString(unnamedCounter) >>

\* The inner loop of buildTestEntries over the parsed tests of one file.
RECURSIVE parsedTestEntries(_, _, _, _)
parsedTestEntries(file, parsedTests, k, unnamedCounter) ==
  IF k > Len(parsedTests) THEN << >>
  ELSE LET test == parsedTests[k]
           counter == IF test.name = << >> THEN unnamedCounter + 1 ELSE unnamedCounter
       IN << [test_id |-> generateTestId(file.path, test.name, test.line, counter),
              file |-> file.path, name |-> test.name,
              tier |-> determineTestTier(file.path, test.name)] >>
          \o parsedTestEntries(file, parsedTests, k + 1, counter)

\* A loop body without the placeholder entry.
fileTestEntriesNoPlaceholder(file) ==
  parsedTestEntries(file,
    parseTestsFromFile(file, detectTestFramework(file.path)), 1, 0)

\* The body of the loop of buildTestEntries for one test file; an entry
\* is shown by its test_id, file, name and tier.
fileTestEntries(file) ==
  LET framework == detectTestFramework(file.path)
      parsedTests == parseTestsFromFile(file, framework)
  IN IF Len(parsedTests) = 0
     THEN << [test_id |-> generateTestId(file.path, << >>, 0, 1),
              file |-> file.path, name |-> << >>,
              tier |-> determineTestTier(file.path, << >>)] >>
     ELSE parsedTestEntries(file, parsedTests, 1, 0)

RECURSIVE buildTestEntries(_)
buildTestEntries(testFiles) ==
  IF testFiles = << >> THEN << >>
  ELSE fileTestEntries(Head(testFiles)) \o buildTestEntries(Tail(testFiles))

MaxTestLines == 2
TestLines ==
  { [kind |-> "jest", name |-> << "a" >>],
    [kind |-> "def", name |-> << "t", "e", "s", "t", "_", "b" >>],
    [kind |-> "func", name |-> << "T", "e", "s", "t", "C" >>],
    [kind |-> "attr", name |-> << >>],
    [kind |-> "fn", name |-> << "s", "l", "o", "w", "_", "d" >>],
    [kind |-> "other", name |-> << >>] }
TestContents == UNION { [1..n -> TestLines] : n \in 0..MaxTestLines }

\* a.test.ts, test_a.py, a_test.go, tests.rs and spec/a.rb
TestPaths ==
  { << "a", ".", "t", "e", "s", "t", ".", "t", "s" >>,
    << "t", "e", "s", "t", "_", "a", ".", "p", "y" >>,
    << "a", "_", "t", "e", "s", "t", ".", "g", "o" >>,
    << "t", "e", "s", "t", "s", ".", "r", "s" >>,
    << "s", "p", "e", "c", "/", "a", ".", "r", "b" >> }

\* A second test file of the list: e2e/b.test.ts, with two tests, with
\* none, or unreadable.
SecondTestFiles ==
  LET p == << "e", "2", "e", "/", "b", ".", "t", "e", "s", "t", ".", "t", "s" >>
      t(n) == [kind |-> "jest", name |-> << n >>]
  IN { [path |-> p, readable |-> TRUE, lines |-> << t("u"), t("v") >>],
       [path |-> p, readable |-> TRUE, lines |-> << >>],
       [path |-> p, readable |-> FALSE, lines |-> << t("u") >>] }

TestFileLists ==
  LET first == { [path |-> p, readable |-> r, lines |-> ls] :
                   p \in TestPaths, r \in BOOLEAN, ls \in TestContents }
  IN { << >> } \cup { << f >> : f \in first }
       \cup { << f, g >> : f \in first, g \in SecondTestFiles }

TestEntryCalls ==
  { [fn |-> "buildTestEntries", done |-> FALSE, ret |-> [none |-> TRUE],
     arg |-> fl] : fl \in TestFileLists }

CallBuildTestEntries ==
  /\ call.fn = "buildTestEntries" /\ ~call.done
  /\ call' = [call EXCEPT !.done = TRUE,
                          !.ret = [entries |-> buildTestEntries(call.arg)]]
  /\ UNCHANGED builderVars

\* ----------------------------------------------------------- symbol ids
\* Successive calls of generateSymbolId for one file on one Set of ids:
\* the id returned by each call and the Set after it.
RECURSIVE issueSymbolIds(_, _, _)
issueSymbolIds(filePath, symbols, existingIds) ==
  IF symbols = << >> THEN << >>
  ELSE LET s == Head(symbols)
           g == generateSymbolId(filePath, s.name, s.line, existingIds, s.container)
       IN << g >> \o issueSymbolIds(filePath, Tail(symbols), g.ids)

MaxSymbols == 3
SymbolArgs ==
  [name : {"f", "g", "A.f"}, line : {1, 5}, container : {"", "A"}]

SymbolIdCalls ==
  { [fn |-> "generateSymbolId", done |-> FALSE, ret |-> [none |-> TRUE],
     arg |-> [filePath |-> "a.ts", symbols |-> ss]] :
      ss \in UNION { [1..n -> SymbolArgs] : n \in 0..MaxSymbols } }

CallGenerateSymbolId ==
  /\ call.fn = "generateSymbolId" /\ ~call.done
  /\ call' = [call EXCEPT !.done = TRUE,
                          !.ret = [issued |-> issueSymbolIds(call.arg.filePath,
                                                             call.arg.symbols, {})]]
  /\ UNCHANGED builderVars

\* ------------------------------------------------------------ key files
KEY_FILE_LOC_THRESHOLD == 300
KEY_FILE_IMPORT_THRESHOLD == 10
MAX_KEY_FILES_PER_MODULE == 15
MAX_KEY_FILES_PER_SUBDIR == 3

\* The boost of the first IMPORTANT_FILE_PATTERNS entry the basename
\* matches, for the basenames used here.
getSemanticBoost(filePath) ==
  CASE basename(filePath) = "types.ts" -> 100
    [] basename(filePath) = "index.ts" -> 50
    [] OTHER -> 0

\* A file carries what countLinesOfCode and countImports make of its
\* content; `score.present` is FALSE for the null result.
analyzeFileForKeyDetection(file) ==
  IF ~isCodeFile(file.path) \/ ~file.readable
  THEN [present |-> FALSE, path |-> file.path, isKey |-> FALSE,
        semanticBoost |-> 0, totalScore |-> 0]
  ELSE LET semanticBoost == getSemanticBoost(file.path)
       IN [present |-> TRUE, path |-> file.path,
           isKey |-> \/ file.loc >= KEY_FILE_LOC_THRESHOLD
                     \/ file.imports >= KEY_FILE_IMPORT_THRESHOLD
                     \/ (semanticBoost > 0 /\ file.loc >= 100),
           semanticBoost |-> semanticBoost,
           totalScore |-> file.loc + semanticBoost]

byTotalScore(a, b) == a.totalScore > b.totalScore
bySemanticBoost(a, b) ==
  \/ a.semanticBoost > b.semanticBoost
  \/ a.semanticBoost = b.semanticBoost /\ a.totalScore > b.totalScore

\* Array.prototype.sort with one of the two comparators, a stable sort:
\* Before(a, b) holds when the comparator puts a strictly before b.
sortBy(arr, comparator) ==
  LET Before(a, b) == IF comparator = "bySemanticBoost"
                      THEN bySemanticBoost(a, b) ELSE byTotalScore(a, b)
      n == Len(arr)
      rank(i) == 1 + Cardinality({ j \in 1..n :
                       \/ Before(arr[j], arr[i])
                       \/ ~Before(arr[i], arr[j]) /\ j < i })
  IN [k \in 1..n |-> arr[CHOOSE i \in 1..n : rank(i) = k]]

\* The scores of the key files among `files`, in the order of `files`.
keyScores(files) ==
  LET all == [i \in 1..Len(files) |-> analyzeFileForKeyDetection(files[i])]
  IN SelectSeq(all, LAMBDA s : s.present /\ s.isKey)

\* The fill loop of findSubdirKeyFiles over the sorted scores.
RECURSIVE fillSlots(_, _, _)
fillSlots(scores, k, picked) ==
  IF k > Len(scores) \/ Len(picked) >= MAX_KEY_FILES_PER_SUBDIR THEN picked
  ELSE IF scores[k].path \in Range(picked) THEN fillSlots(scores, k + 1, picked)
  ELSE fillSlots(scores, k + 1, Append(picked, scores[k].path))

findSubdirKeyFiles(files, subdirPath, excludeNested) ==
  LET subdirFiles ==
        SelectSeq(files, LAMBDA f : /\ startsWithDir(f.path, subdirPath)
                                    /\ excludeNested => Len(f.path) = Len(subdirPath) + 1)
      scores == sortBy(keyScores(subdirFiles), "byTotalScore")
      semanticScores ==
        sortBy(SelectSeq(keyScores(subdirFiles), LAMBDA s : s.semanticBoost > 0),
               "bySemanticBoost")
      topNMinus1 == SubSeq(scores, 1,
                           IF Len(scores) < MAX_KEY_FILES_PER_SUBDIR - 1
                           THEN Len(scores) ELSE MAX_KEY_FILES_PER_SUBDIR - 1)
      semanticInTop ==
        /\ Len(semanticScores) > 0
        /\ \E i \in 1..Len(topNMinus1) : topNMinus1[i].path = semanticScores[1].path
  IN fillSlots(scores, 1,
               IF Len(semanticScores) > 0 /\ ~semanticInTop
               THEN << semanticScores[1].path >> ELSE << >>)

\* subdirs is the list of subdirectory paths; the result pairs each with
\* its key_files.
populateSubdirKeyFiles(files, subdirs) ==
  LET parentsWithChildren ==
        { subdirs[i] : i \in { k \in 1..Len(subdirs) :
                                 \E j \in 1..Len(subdirs) :
                                   /\ subdirs[j] # subdirs[k]
                                   /\ startsWithDir(subdirs[j], subdirs[k]) } }
  IN [i \in 1..Len(subdirs) |->
        [path |-> subdirs[i],
         key_files |-> findSubdirKeyFiles(files, subdirs[i],
                                          subdirs[i] \in parentsWithChildren)]]

\* One pass of the for loop over the subdirectories at `round`.
RECURSIVE roundPass(_, _, _, _)
roundPass(subdirs, i, round, keyFiles) ==
  IF i > Len(subdirs) \/ Len(keyFiles) >= MAX_KEY_FILES_PER_MODULE THEN keyFiles
  ELSE IF round < Len(subdirs[i].key_files)
          /\ subdirs[i].key_files[round + 1] \notin Range(keyFiles)
       THEN roundPass(subdirs, i + 1, round, Append(keyFiles, subdirs[i].key_files[round + 1]))
       ELSE roundPass(subdirs, i + 1, round, keyFiles)

\* The while loop: it ends when a round added nothing, when the module
\* limit is reached, or after round MAX_KEY_FILES_PER_SUBDIR.
RECURSIVE roundRobin(_, _, _)
roundRobin(subdirs, round, keyFiles) ==
  LET after == roundPass(subdirs, 1, round, keyFiles)
      addedThisRound == Len(after) > Len(keyFiles)
  IN IF \/ round + 1 > MAX_KEY_FILES_PER_SUBDIR
        \/ ~addedThisRound
        \/ Len(after) >= MAX_KEY_FILES_PER_MODULE
     THEN after
     ELSE roundRobin(subdirs, round + 1, after)

\* The fill of the remaining slots with the best other key files.
topUp(files, keyFiles) ==
  LET remaining == MAX_KEY_FILES_PER_MODULE - Len(keyFiles)
      otherFiles == SelectSeq(files, LAMBDA f : f.path \notin Range(keyFiles))
      scores == sortBy(keyScores(otherFiles), "byTotalScore")
      top == SubSeq(scores, 1, IF Len(scores) < remaining THEN Len(scores) ELSE remaining)
  IN IF remaining > 0 THEN keyFiles \o [i \in 1..Len(top) |-> top[i].path]
     ELSE keyFiles

\* Every subdirectory's list appended whole, one subdirectory after another.
RECURSIVE eachSubdirInTurn(_, _, _)
eachSubdirInTurn(subdirs, i, keyFiles) ==
  IF i > Len(subdirs) THEN keyFiles
  ELSE eachSubdirInTurn(subdirs, i + 1,
         keyFiles \o SelectSeq(subdirs[i].key_files, LAMBDA p : p \notin Range(keyFiles)))

\* A selection that takes each subdirectory's whole list in turn.
findDistributedKeyFilesBySubdir(files, subdirs) ==
  LET all == eachSubdirInTurn(subdirs, 1, << >>)
      robin == SubSeq(all, 1, IF Len(all) < MAX_KEY_FILES_PER_MODULE
                              THEN Len(all) ELSE MAX_KEY_FILES_PER_MODULE)
  IN [robin |-> robin, key_files |-> topUp(files, robin)]

\* `robin` is the Set after the while loop, in insertion order.
findDistributedKeyFiles(files, subdirs) ==
  LET robin == roundRobin(subdirs, 0, << >>)
      all == topUp(files, robin)
  IN [robin |-> robin,
      key_files |-> SubSeq(all, 1, IF Len(all) < MAX_KEY_FILES_PER_MODULE
                                   THEN Len(all) ELSE MAX_KEY_FILES_PER_MODULE)]

\* The directories of module m that hold files, in the order in which
\* detectSubdirectories lists subdirectories of equal size.
KeyDirs ==
  << << "m", "d1" >>, << "m", "d1", "n" >>, << "m", "d2" >>, << "m", "d3" >>,
     << "m", "d4" >>, << "m", "d5" >> >>

keyDirIndex(d) == CHOOSE k \in 1..Len(KeyDirs) : KeyDirs[k] = d

\* The files a directory can hold, in the order the walker lists them;
\* the k-th directory's files are k lines longer, f3.ts cannot be read in
\* the last directory.
DirFiles(k) ==
  LET d == KeyDirs[k]
      F(name, loc) == [path |-> Append(d, name), loc |-> loc + k, imports |-> 0,
                       readable |-> ~(name = "f3.ts" /\ k = Len(KeyDirs))]
  IN << F("f1.ts", 400), F("types.ts", 120), F("f2.ts", 350), F("f3.ts", 310),
        F("small.ts", 50) >>

\* Files directly in the module: a large one, one with many imports and
\* one that is not code.
DirectFiles ==
  << [path |-> << "m", "big.ts" >>, loc |-> 900, imports |-> 0, readable |-> TRUE],
     [path |-> << "m", "imp.ts" >>, loc |-> 20, imports |-> 12, readable |-> TRUE],
     [path |-> << "m", "README.md" >>, loc |-> 500, imports |-> 0, readable |-> TRUE] >>

RECURSIVE moduleFilesOf(_, _)
moduleFilesOf(counts, k) ==
  IF k > Len(KeyDirs) THEN << >>
  ELSE SubSeq(DirFiles(k), 1, counts[k]) \o moduleFilesOf(counts, k + 1)

\* Every directory holds 0, 1, 3 or 5 files; those with 3 code files or
\* more are the module's subdirectories, the largest first.
KeyFileCalls ==
  { [fn |-> "findDistributedKeyFiles", done |-> FALSE, ret |-> [none |-> TRUE],
     arg |-> [files |-> (IF direct THEN DirectFiles ELSE << >>)
                          \o moduleFilesOf(counts, 1),
              subdirs |-> SelectSeq(KeyDirs, LAMBDA d : counts[keyDirIndex(d)] = 5)
                            \o SelectSeq(KeyDirs, LAMBDA d : counts[keyDirIndex(d)] = 3)]] :
      direct \in BOOLEAN, counts \in [1..Len(KeyDirs) -> {0, 1, 3, 5}] }

\* The loop body of buildRepoMap for a module with subdirectories.
CallFindDistributedKeyFiles ==
  /\ call.fn = "findDistributedKeyFiles" /\ ~call.done
  /\ LET subdirs == populateSubdirKeyFiles(call.arg.files, call.arg.subdirs)
         found == findDistributedKeyFiles(call.arg.files, subdirs)
     IN call' = [call EXCEPT !.done = TRUE,
                             !.ret = [subdirectories |-> subdirs,
                                      robin |-> found.robin,
                                      key_files |-> found.key_files]]
  /\ UNCHANGED builderVars

CallInit ==
  /\ BuilderInit
  /\ call \in DiscoverCalls \cup ExtractCalls \cup VerifyCalls \cup RepoCalls
                \cup TierCalls \cup TestEntryCalls \cup SymbolIdCalls
                \cup KeyFileCalls

CallNext ==
  \/ CallDiscoverFiles
  \/ CallExtractSymbolsFromFile
  \/ CallVerifyIndex
  \/ CallBuildRepoMap
  \/ CallDetermineTestTier
  \/ CallBuildTestEntries
  \/ CallGenerateSymbolId
  \/ CallFindDistributedKeyFiles

CallSpec == CallInit /\ [][CallNext]_vars

\* =============================================================== claims
Hash(c) == "sha256:" \o ToString(c)
Discovered == { run.files[i].path : i \in 1..Len(run.files) }
Meta == pub["meta.json"]
Ledger == pub["file_hashes.json"]
Symbols == pub["symbols.jsonl"]
Returned(kind) == pc = "idle" /\ result.kind = kind

\* C1: when a build is aborted, or a write or rename of writeIndexFiles
\* fails, before meta.json is renamed, each of the five published files
\* still has the content it had when the build started (or is absent).
C1_AbortKeepsPublishedFiles ==
  ( \/ Returned("aborted")
    \/ (Returned("error") /\ result.code = "ARK_INDEX_WRITE_ERROR") )
  => pub = pubAtStart

\* C2: in every reachable state, a meta.json with status success or
\* partial comes with the four other artifacts of the same build: the
\* ledger has meta.stats.total_files entries and symbols.jsonl has
\* meta.stats.total_symbols lines.
C2_MetaMarksConsistentSet ==
  (Meta.present /\ Meta.data.status \in {"success", "partial"})
  => /\ \A n \in Artifacts : pub[n].present /\ pub[n].data = Meta.set[n]
     /\ Cardinality(LedgerPaths(Ledger.data.files)) = Meta.data.stats.total_files
     /\ Len(Symbols.data.lines) = Meta.data.stats.total_symbols

\* C3 as stated: every file analyzeChanges calls unchanged has the content
\* whose hash the previous ledger stores, and every file it calls changed
\* has another content or could not be stat'ed or read.
C3_VerdictMatchesContent ==
  (pc = "extract" /\ ~run.forceFullIndex)
  => \A i \in 1..Len(run.changes) :
       LET ch == run.changes[i]
           cur == run.fsSeen[ch.path]
           prev == run.previousHashes.files[ch.path]
       IN /\ ch.status = "unchanged" => Hash(cur.content) = prev.hash
          /\ ch.status = "changed" =>
               \/ ~cur.present \/ ~cur.readable
               \/ Hash(cur.content) # prev.hash

\* C3 amended: a file called unchanged has the mtime and size the previous
\* ledger stores for it, or the content whose hash the ledger stores; a
\* file called changed has another content or could not be stat'ed or read.
C3_VerdictMatchesStatOrHash ==
  (pc = "extract" /\ ~run.forceFullIndex)
  => \A i \in 1..Len(run.changes) :
       LET ch == run.changes[i]
           cur == run.fsSeen[ch.path]
           prev == run.previousHashes.files[ch.path]
       IN /\ ch.status = "unchanged" =>
               /\ cur.present
               /\ \/ (cur.mtime = prev.mtime /\ SizeOf(cur.content) = prev.size)
                  \/ Hash(cur.content) = prev.hash
          /\ ch.status = "changed" =>
               \/ ~cur.present \/ ~cur.readable
               \/ Hash(cur.content) # prev.hash

\* An analysis that called one file unchanged and another one changed.
C3_Witness ==
  /\ pc = "extract" /\ ~run.forceFullIndex
  /\ \E i, j \in 1..Len(run.changes) :
       run.changes[i].status = "unchanged" /\ run.changes[j].status = "changed"

\* C4: no two records of symbols.jsonl carry the same symbol_id.
C4_SymbolIdsUnique ==
  Symbols.present
  => \A i, j \in 1..Len(Symbols.data.lines) :
       i # j => Symbols.data.lines[i].symbol_id # Symbols.data.lines[j].symbol_id

\* C5: a second build with the options of the first and no change of the
\* working tree since the first one started reports files_changed = 0 and
\* writes the symbols.jsonl the first one wrote.
C5_SecondBuildChangesNothing ==
  ( /\ Returned("success") /\ prevRun.kind = "success"
    /\ prevRun.opts = run.opts /\ ~run.opts.force
    /\ prevRun.editsStart = edits )
  => /\ result.stats.files_changed = 0
     /\ run.out["symbols.jsonl"].lines = prevRun.lines

ConfigDiffers(o1, o2) ==
  \/ Range(o1.includeGlobs) # Range(o2.includeGlobs)
  \/ Range(o1.excludeGlobs) # Range(o2.excludeGlobs)
  \/ o1.maxFileKb # o2.maxFileKb
  \/ o1.respectGitignore # o2.respectGitignore
  \/ Range(o1.adapters) # Range(o2.adapters)

\* C6: a build whose globs, max_file_kb, respect_gitignore or adapter
\* names differ from those passed to the preceding successful build
\* extracts every discovered file, takes no record from the cache and
\* reports files_changed = number of discovered files.
C6_ConfigChangeReindexesAll ==
  ( /\ Returned("success") /\ prevRun.kind = "success"
    /\ ConfigDiffers(run.opts, prevRun.opts) )
  => /\ run.extracted = Discovered
     /\ run.fromCache = {}
     /\ result.stats.files_changed = Len(run.files)

\* C7: a build that is neither killed nor hit by a write failure nor over
\* max_files returns success and has written all five artifacts, whatever
\* happens to single files.
C7_PerFileFailureNeverAborts ==
  ( /\ pc = "idle" /\ result.kind \notin {"none", "aborted"}
    /\ result.code \notin {"ARK_INDEX_WRITE_ERROR", "ARK_INDEX_TOO_MANY_FILES"} )
  => /\ result.kind = "success"
     /\ \A n \in Artifacts : pub[n].present /\ pub[n].build = run.id

ClaimedOrder ==
  << "file_hashes.json", "symbols.jsonl", "repo_map.json", "test_map.json",
     "meta.json" >>

\* C8: a file is published only from its completely written temp file,
\* after every file before it in the order file_hashes, symbols, repo_map,
\* test_map, meta has been published by the same build and before any
\* file after it; meta.json is renamed after the four other renames.
C8_FixedPublishOrder ==
  [][ \A k \in 1..Len(ClaimedOrder) :
        LET n == ClaimedOrder[k] IN
        pub'[n] # pub[n]
        => /\ tmp[n].present /\ tmp[n].complete
           /\ pub'[n].data = tmp[n].data /\ pub'[n].build = run.id
           /\ \A j \in 1..(k - 1) :
                pub[ClaimedOrder[j]].present /\ pub[ClaimedOrder[j]].build = run.id
           /\ \A j \in (k + 1)..Len(ClaimedOrder) :
                pub[ClaimedOrder[j]].build # run.id ]_vars

\* The writer about to rename meta.json, the four others being renamed.
C8_Witness ==
  /\ pc = "write" /\ wphase = "rename" /\ WriteOrder[wpos] = "meta.json"
  /\ \A n \in Artifacts \ {"meta.json"} : pub[n].build = run.id

\* C9: after a build that returned success, meta.json exists with status
\* success or partial, symbols.jsonl has meta.stats.total_symbols lines
\* and the ledger has meta.stats.total_files entries, one per discovered
\* file and none for a deleted file.
C9_SuccessCountsAgree ==
  Returned("success")
  => /\ Meta.present /\ Meta.data.status \in {"success", "partial"}
     /\ Len(Symbols.data.lines) = Meta.data.stats.total_symbols
     /\ Cardinality(LedgerPaths(Ledger.data.files)) = Meta.data.stats.total_files
     /\ LedgerPaths(Ledger.data.files) = Discovered
     /\ \A i \in 1..Len(run.changes) :
          run.changes[i].status = "deleted"
          => ~Ledger.data.files[run.changes[i].path].present

\* A successful incremental build that kept one file, saw one file
\* deleted since the previous build.
C9_Witness ==
  /\ Returned("success") /\ run.isIncremental
  /\ \E i, j \in 1..Len(run.changes) :
       run.changes[i].status = "deleted" /\ run.changes[j].status = "unchanged"

\* C10: after a successful build, one write to the content of one
\* discovered file (its mtime moves) and a second build with the same
\* options: files_changed = 1, the file's ledger hash differs, every other
\* file keeps its ledger entry and its symbol records.
C10_OneEditReindexesOneFile ==
  ( /\ Returned("success") /\ prevRun.kind = "success"
    /\ prevRun.opts = run.opts /\ ~run.opts.force
    /\ prevRun.editsEnd = prevRun.editsStart
    /\ run.editsStart = prevRun.editsEnd + 1 /\ edits = run.editsStart
    /\ lastEdit.kind = "content"
    /\ prevRun.files[lastEdit.path].present /\ lastEdit.path \in Discovered )
  => /\ result.stats.files_changed = 1
     /\ run.out["file_hashes.json"].files[lastEdit.path].hash
          # prevRun.files[lastEdit.path].hash
     /\ \A q \in Paths \ {lastEdit.path} :
          /\ run.out["file_hashes.json"].files[q] = prevRun.files[q]
          /\ loadCachedSymbols(run.out["symbols.jsonl"].lines, q)
               = loadCachedSymbols(prevRun.lines, q)

\* C11: after a successful build, a touch of one discovered file (mtime
\* moves, content stays) and a second build with the same options:
\* symbols.jsonl is the one of the first build, the file is not counted in
\* files_changed, its ledger hash stays and every other ledger entry is
\* the same.
C11_TouchKeepsSymbolsAndHashes ==
  ( /\ Returned("success") /\ prevRun.kind = "success"
    /\ prevRun.opts = run.opts /\ ~run.opts.force
    /\ prevRun.editsEnd = prevRun.editsStart
    /\ run.editsStart = prevRun.editsEnd + 1 /\ edits = run.editsStart
    /\ lastEdit.kind = "touch"
    /\ prevRun.files[lastEdit.path].present /\ lastEdit.path \in Discovered )
  => /\ run.out["symbols.jsonl"].lines = prevRun.lines
     /\ result.stats.files_changed = 0
     /\ run.out["file_hashes.json"].files[lastEdit.path].hash
          = prevRun.files[lastEdit.path].hash
     /\ \A q \in Paths \ {lastEdit.path} :
          run.out["file_hashes.json"].files[q] = prevRun.files[q]

C13_TooManyFilesOnlyAboveLimit ==
  run.id > 0
  => /\ run.nCandidates > run.opts.maxFiles
          => /\ Returned("error") /\ result.code = "ARK_INDEX_TOO_MANY_FILES"
             /\ pub = pubAtStart
     /\ (run.nCandidates <= run.opts.maxFiles /\ pc = "idle")
          => result.code # "ARK_INDEX_TOO_MANY_FILES"

\* A build over the limit next to the untouched index of an earlier build
\* that ran with the count at its limit.
C13_Witness ==
  /\ Returned("error") /\ result.code = "ARK_INDEX_TOO_MANY_FILES"
  /\ run.nCandidates = run.opts.maxFiles + 1
  /\ prevRun.kind = "success" /\ Meta.present /\ Meta.build = run.id - 1
  /\ Meta.data.stats.total_files + Meta.data.stats.skipped_files = 2

\* C14: discoverFiles called with followSymlinks = true never lists a
\* symlink whose resolved target lies outside the root; the path is in
\* `skipped` with a reason.
C14_OutsideSymlinkIsSkipped ==
  ( /\ call.fn = "discoverFiles" /\ call.done
    /\ call.arg.opts.followSymlinks
    /\ call.ret.errors = << >> )
  => \A p \in Paths :
       call.arg.f[p].link = "outside"
       => /\ \A i \in 1..Len(call.ret.files) : call.ret.files[i].path # p
          /\ \E i \in 1..Len(call.ret.skipped) : call.ret.skipped[i].path = p

\* C15: a published meta.json has status partial exactly when it carries
\* at least one warning, each one a skipped file or an extraction error,
\* and status success otherwise; a build that skipped a file writes
\* partial; the status is never failed.
C15_PartialIffWarnings ==
  Meta.present
  => /\ Meta.data.status \in {"success", "partial"}
     /\ Meta.data.status = "partial" <=> Len(Meta.data.warnings) > 0
     /\ \A i \in 1..Len(Meta.data.warnings) :
          Meta.data.warnings[i].code
            \in {"ARK_INDEX_FILE_SKIPPED", "ARK_INDEX_EXTRACTION_ERROR"}
     /\ Meta.data.stats.skipped_files > 0 => Meta.data.status = "partial"

\* A published meta.json with status partial whose only warning is an
\* extraction error.
C15_Witness ==
  /\ Meta.present /\ Meta.data.status = "partial"
  /\ Len(Meta.data.warnings) = 1
  /\ Meta.data.warnings[1].code = "ARK_INDEX_EXTRACTION_ERROR"

Qualifies(a, c) ==
  isAvailable(a) /\ ~adapterThrows(a) /\ adapterExtractSymbols(a, c) # << >>

NameLines(symbols) ==
  [i \in 1..Len(symbols) |-> [name |-> symbols[i].name, line |-> symbols[i].line]]

\* C16: the symbols of a readable file are those of the first adapter of
\* the list that is available, does not throw and returns a non-empty list,
\* whatever the later adapters would return; they are those of the
\* baseline extractor exactly when no adapter of the list does so.
C16_FirstQualifyingAdapterWins ==
  ( /\ call.fn = "extractSymbolsFromFile" /\ call.done
    /\ call.arg.f[call.arg.filePath].readable )
  => LET ads == call.arg.adapters
         c == call.arg.f[call.arg.filePath].content
     IN /\ \A k \in 1..Len(ads) :
             (Qualifies(ads[k], c) /\ \A j \in 1..(k - 1) : ~Qualifies(ads[j], c))
             => /\ call.ret.adapterUsed = ads[k]
                /\ NameLines(call.ret.symbols) = adapterExtractSymbols(ads[k], c)
        /\ (\A k \in 1..Len(ads) : ~Qualifies(ads[k], c))
             <=> call.ret.adapterUsed = ""
        /\ call.ret.adapterUsed = ""
             => NameLines(call.ret.symbols) = extractSymbolsBaseline(c)

\* A list whose first adapter throws, whose second and third adapters both
\* return symbols: the second one supplied them.
C16_Witness ==
  /\ call.fn = "extractSymbolsFromFile" /\ call.done
  /\ call.arg.adapters = << "C", "A", "D" >>
  /\ call.arg.f["a.ts"].readable /\ call.arg.f["a.ts"].content = 3
  /\ call.ret.adapterUsed = "A"

Verified == call.fn = "verifyIndex" /\ call.done /\ ~call.ret.threw
AllExist == \A n \in Artifacts : call.arg.exists[n]
MajorIsOne ==
  LET v == call.arg.meta.schema_version
  IN v[1] = "1" /\ (Len(v) = 1 \/ v[2] = ".")

\* C17: verifyIndex on a complete directory whose meta.json parses and has
\* a schema_version with a major component other than 1 returns
\* valid = false with an entry in errors.
C17_WrongMajorIsInvalid ==
  (Verified /\ AllExist /\ call.arg.parses["meta.json"] /\ ~MajorIsOne)
  => ~call.ret.valid /\ Len(call.ret.errors) > 0

ErrorCondition ==
  \/ ~AllExist
  \/ \E n \in JsonFiles : ~call.arg.parses[n]
  \/ ~call.arg.symbolsReadable
  \/ \E i \in 1..Len(call.arg.lines) : call.arg.lines[i] = "junk"

CountMismatch ==
  \/ call.arg.meta.total_files # call.arg.hashFileCount
  \/ call.arg.meta.total_symbols
       # Cardinality({ i \in 1..Len(call.arg.lines) : call.arg.lines[i] # "blank" })

ErrorsOf(kind) ==
  { i \in 1..Len(call.ret.errors) : call.ret.errors[i].kind = kind }

RepoMapped == call.fn = "buildRepoMap" /\ call.done

\* C19: no subdirectory listed for an emitted module is the path of
\* another emitted module or lies below the path of another emitted module
\* (the root module, below which everything lies, left aside).
C19_SubdirectoriesAvoidOtherModules ==
  RepoMapped
  => \A i, j \in 1..Len(call.ret.modules) :
       (i # j /\ call.ret.modules[j].path # << "." >>)
       => \A k \in 1..Len(call.ret.modules[i].subdirectories) :
            LET sub == call.ret.modules[i].subdirectories[k].path
                other == call.ret.modules[j].path
            IN sub # other /\ ~startsWithDir(sub, other)

\* C20: for a repository whose only file is a root README.md the repo map
\* has exactly one module, with path "." and the README's description.
C20_ReadmeOnlyRepoHasRootModule ==
  (RepoMapped /\ call.arg = << << "README.md" >> >>)
  => /\ Len(call.ret.modules) = 1
     /\ call.ret.modules[1].path = << "." >>
     /\ call.ret.modules[1].description = "readme"

TestEntriesBuilt == call.fn = "buildTestEntries" /\ call.done
EntriesOfFile(p) == SelectSeq(call.ret.entries, LAMBDA e : e.file = p)

\* C21: buildTestEntries returns, for every test file, exactly one entry
\* with a null name when no test is parsed from it or it cannot be read,
\* and otherwise one entry per parsed test, in order, none of them with a
\* null name; every entry's `file` is the path of a test file.
C21_EntryPerTestFile ==
  TestEntriesBuilt
  => /\ \A k \in 1..Len(call.arg) :
          LET file == call.arg[k]
              parsed == parseTestsFromFile(file, detectTestFramework(file.path))
              es == EntriesOfFile(file.path)
          IN /\ Len(es) >= 1
             /\ (parsed = << >> \/ ~file.readable)
                  => Len(es) = 1 /\ es[1].name = << >>
             /\ parsed # << >>
                  => /\ Len(es) = Len(parsed)
                     /\ \A i \in 1..Len(es) :
                          es[i].name = parsed[i].name /\ es[i].name # << >>
     /\ \A i \in 1..Len(call.ret.entries) :
          \E k \in 1..Len(call.arg) : call.ret.entries[i].file = call.arg[k].path

\* A Rust file with one parsed test next to an unreadable file: one named
\* entry and one placeholder.
C21_Witness ==
  /\ TestEntriesBuilt /\ Len(call.arg) = 2
  /\ call.arg[1].path = << "t", "e", "s", "t", "s", ".", "r", "s" >>
  /\ call.arg[1].readable /\ ~call.arg[2].readable
  /\ Len(call.ret.entries) = 2
  /\ call.ret.entries[1].name = << "s", "l", "o", "w", "_", "d" >>
  /\ call.ret.entries[2].name = << >>

TierHas(word) ==
  \/ includes(toLowerCase(call.arg.filePath), word)
  \/ includes(toLowerCase(call.arg.testName), word)

\* C22: determineTestTier returns integration when the lower-cased path or
\* name contains integration or e2e; otherwise slow when the path or the
\* name contains slow, benchmark or perf; otherwise fast.
C22_TierFromPathOrName ==
  (call.fn = "determineTestTier" /\ call.done)
  => call.ret.tier =
       IF \/ TierHas(<< "i", "n", "t", "e", "g", "r", "a", "t", "i", "o", "n" >>)
          \/ TierHas(<< "e", "2", "e" >>)
       THEN "integration"
       ELSE IF \/ TierHas(<< "s", "l", "o", "w" >>)
               \/ TierHas(<< "b", "e", "n", "c", "h", "m", "a", "r", "k" >>)
               \/ TierHas(<< "p", "e", "r", "f" >>)
            THEN "slow"
            ELSE "fast"

QualifiedName(s) == IF s.container # "" THEN s.container \o "." \o s.name ELSE s.name

\* C23: in a series of generateSymbolId calls for one file, the first
\* occurrence of a qualified name gets {file}::{name} (or
\* {file}::{container}.{name}), every later occurrence gets
\* {base}:L{line}, and every id issued so far stays in the set of ids.
C23_FirstKeepsBaseLaterGetLine ==
  (call.fn = "generateSymbolId" /\ call.done)
  => \A k \in 1..Len(call.arg.symbols) :
       LET s == call.arg.symbols[k]
           base == call.arg.filePath \o "::" \o QualifiedName(s)
           first == \A j \in 1..(k - 1) :
                      QualifiedName(call.arg.symbols[j]) # QualifiedName(s)
       IN /\ first => call.ret.issued[k].id = base
          /\ ~first => call.ret.issued[k].id = base \o ":L" \o ToString(s.line)
          /\ \A j \in 1..k : call.ret.issued[j].id \in call.ret.issued[k].ids

\* Three calls for the qualified name A.f, the first with a container:
\* the base id, then two ids with their lines.
C23_Witness ==
  /\ call.fn = "generateSymbolId" /\ call.done
  /\ Len(call.arg.symbols) = 3
  /\ call.arg.symbols[1].container = "A" /\ call.arg.symbols[1].name = "f"
  /\ call.ret.issued[1].id = "a.ts::A.f"
  /\ call.ret.issued[2].id = "a.ts::A.f:L1"
  /\ call.ret.issued[3].id = "a.ts::A.f:L5"

KeyFilesFound == call.fn = "findDistributedKeyFiles" /\ call.done
Distinct(arr) == \A i, j \in 1..Len(arr) : i # j => arr[i] # arr[j]
Pos(arr, x) == CHOOSE i \in 1..Len(arr) : arr[i] = x

\* C24: a module's key_files holds at most 15 distinct paths and every
\* subdirectory's key_files at most 3; whenever the module list holds the
\* key file of rank s of a subdirectory, it holds the key file of every
\* lower rank of every subdirectory before it; every file that no
\* subdirectory lists (a top-up file) comes after all files that a
\* subdirectory lists.
C24_KeyFilesCappedAndRoundRobin ==
  KeyFilesFound
  => LET kf == call.ret.key_files
         subs == call.ret.subdirectories
         listed == UNION { Range(subs[i].key_files) : i \in 1..Len(subs) }
     IN /\ Len(kf) <= 15 /\ Distinct(kf)
        /\ \A i \in 1..Len(subs) :
             Len(subs[i].key_files) <= 3 /\ Distinct(subs[i].key_files)
        /\ \A a, b \in 1..Len(subs) :
             \A s \in 2..Len(subs[b].key_files) :
               subs[b].key_files[s] \in Range(kf)
               => \A r \in 1..(s - 1) :
                    r <= Len(subs[a].key_files)
                    => /\ subs[a].key_files[r] \in Range(kf)
                       /\ Pos(kf, subs[a].key_files[r]) < Pos(kf, subs[b].key_files[s])
        /\ \A i, j \in 1..Len(kf) :
             (kf[i] \notin listed /\ kf[j] \in listed) => j < i

\* Four subdirectories with three key files each, taken in three rounds,
\* and three top-up files that fill the module list to 15.
C24_Witness ==
  /\ KeyFilesFound
  /\ Len(call.ret.subdirectories) = 4
  /\ \A i \in 1..4 : Len(call.ret.subdirectories[i].key_files) = 3
  /\ Len(call.ret.robin) = 12
  /\ Len(call.ret.key_files) = 15
  /\ call.ret.key_files[13] = << "m", "big.ts" >>

\* What extracting the current content of p with the given adapters
\* yields, with the ids of a file that is extracted on its own.
FreshSymbols(p, adapters) == extractSymbolsFromFile(fs, p, adapters, {}).symbols

\* C25: after a successful build during which the tree was not modified,
\* whatever builds, aborts, failed writes and edits came before, the
\* records of symbols.jsonl for every discovered file are those that
\* extracting the file's current content yields (with the adapters of
\* this build or of an earlier one): none comes from an older content.
C25_SymbolsMatchCurrentContent ==
  (Returned("success") /\ run.editsStart = edits)
  => \A p \in Discovered :
       \E o \in DeepOptions :
         loadCachedSymbols(Symbols.data.lines, p) = FreshSymbols(p, o.adapters)

\* hasConfigChanged as buildIndex calls it for the running build.
ConfigChangedAtStart ==
  hasConfigChanged([includeGlobs |-> run.opts.includeGlobs,
                    excludeGlobs |-> run.opts.excludeGlobs,
                    maxFileKb |-> run.opts.maxFileKb,
                    respectGitignore |-> run.opts.respectGitignore,
                    adapters |-> run.opts.adapters],
                   [present |-> TRUE, config |-> pubAtStart["meta.json"].data.config])

\* C26: for a build that follows a successful build with the same options
\* and no edit of the tree since that build started, hasConfigChanged on
\* the meta.json of that build is false, and the build is incremental
\* with files_changed = 0, whatever the adapter list and however many
\* such builds came before.
C26_SameOptionsStayIncremental ==
  ( /\ Returned("success") /\ prevRun.kind = "success"
    /\ prevRun.opts = run.opts /\ ~run.opts.force
    /\ prevRun.editsStart = edits )
  => /\ ~ConfigChangedAtStart
     /\ ~run.forceFullIndex /\ run.isIncremental
     /\ result.stats.files_changed = 0

\* C28: a build whose file discovery failed for another reason than
\* max_files (the walker could not be run or exited with status 2) never
\* publishes a meta.json with status success and replaces no artifact
\* that was published when it started.
C28_WalkerFailurePublishesNothing ==
  run.walkerFailed
  => /\ ~(Meta.present /\ Meta.build = run.id /\ Meta.data.status = "success")
     /\ \A n \in Artifacts : pubAtStart[n].present => pub[n] = pubAtStart[n]

BothReturned == \A p \in Runs : procs[p].status # "running"

\* C27: once two overlapping runs on one index directory have both
\* returned, the five published artifacts all come from one and the same
\* run, and neither run has returned ARK_INDEX_WRITE_ERROR (no fault is
\* injected: an error can only come from the other run).
C27_OverlappingRunsPublishOneSet ==
  BothReturned
  => /\ \E r \in Runs : \A n \in Artifacts : pub[n].present /\ pub[n].build = r
     /\ \A p \in Runs : procs[p].status = "success"

\* C29: verifyIndex never throws: for a meta.json that is `null` or lacks
\* schema_version or stats, and for a file_hashes.json without `files`, it
\* returns a result.
C29_VerifyIndexNeverThrows ==
  (call.fn = "verifyIndex" /\ call.done) => ~call.ret.threw

StatsInBounds(st) ==
  /\ 0 <= st.indexed_files /\ st.indexed_files <= st.total_files
  /\ st.files_changed <= st.total_files

\* C30: the stats of a build that returned success, and the stats of a
\* published meta.json, satisfy 0 <= indexed_files <= total_files and
\* files_changed <= total_files.
C30_StatsWithinTotals ==
  /\ result.kind = "success" => StatsInBounds(result.stats)
  /\ Meta.present => StatsInBounds(Meta.data.stats)

====
